---- MODULE Spec2Model ----
(***************************************************************************)
(* A model of qnap-pkg-sync: the bounded-concurrency transfer executors    *)
(* (src/utils/concurrency.ts, copied in download-apps.ts and upload.ts),   *)
(* the catalog differ (fetch-xml.ts), and the pending-set file as it is    *)
(* written by the fetch cycle, the download run and the reconcilers.       *)
(*                                                                         *)
(* Strings that the code parses or joins are sequences of one-character    *)
(* strings, so that a join or a parse is computed and not assumed.         *)
(***************************************************************************)
EXTENDS Naturals, Integers, Sequences, FiniteSets, TLC

VARIABLES
    \* ---- one run of a transfer executor ----
    tasks,        \* tasks.length
    concurrency,  \* the limit argument
    taskState,    \* per task: "idle" | "running" | "fulfilled" | "rejected"
    results,      \* the results array (Hole where nothing was stored)
    executing,    \* the executing array, as the indices of the tasks' promises
    idx,          \* the loop variable (1-based)
    pc,           \* where the executor's async body is
    awaited,      \* the promises handed to the pending Promise.race / Promise.all
    winner,       \* the promise that settled the pending Promise.race, 0 if none yet
    \* ---- one call of findDifferences from fetch-xml's main ----
    appsFile,     \* config/apps.json: Absent, Unreadable or its JSON
    newConfig,    \* the catalog just fetched
    differences,  \* what findDifferences returned (NotRun before the call)
    oldConfig,    \* main's oldConfig when findDifferences was called
    configProgress, \* config/upload-progress.json, the ledger the checks read
    \* ---- the files and the storage the pipeline's scripts work on ----
    updateFile,     \* config/update-apps.json: Absent or its JSON
    downloads,      \* the files in downloads/, each intact or partial
    metadataFile,   \* downloads/metadata.json: Absent or its entries
    uploadProgress, \* downloads/upload-progress.json, the ledger upload.ts keeps
    remote,         \* CTFile: per product folder, the files of this month's folder
    dl,             \* the locals of the downloadUpdates call in progress
    lastRun,        \* which script ran last, and what it found
    \* ---- one call of downloadFile, one run of upload.ts ----
    df,             \* the locals of the downloadFile call, and what it did
    ul,             \* the locals of upload.ts' main and uploadPackages
    client          \* the locals of the storage client's call in progress

execVars == <<tasks, concurrency, taskState, results, executing, idx, pc, awaited, winner>>

diffVars == <<appsFile, newConfig, differences, oldConfig, configProgress>>

syncVars == <<updateFile, downloads, metadataFile, uploadProgress, remote, dl, lastRun>>

runVars == <<df, ul, client>>

nonExecVars == <<diffVars, syncVars, runVars>>

vars == <<execVars, diffVars, syncVars, runVars>>

\* ------------------------------------------------------------------------
\* Bounds of the model
\* ------------------------------------------------------------------------
MaxTasks == 4

MaxLimit == 3

MaxPlatforms == 2

MaxApps == 2

MaxDownloadLimit == 2

MaxUploadLimit == 2

MaxRetriesArg == 3

MaxChunks == 2

\* ------------------------------------------------------------------------
\* JavaScript array helpers
\* ------------------------------------------------------------------------
Hole == <<"hole">>

Undefined == <<"undefined">>

Range(s) == {s[k] : k \in 1..Len(s)}

\* Array.prototype.indexOf / findIndex(p => p === x): 0-based, -1 when absent.
IndexOf(s, x) ==
    IF \E k \in 1..Len(s) : s[k] = x
    THEN (CHOOSE k \in 1..Len(s) : s[k] = x /\ \A j \in 1..(k - 1) : s[j] # x) - 1
    ELSE -1

\* Array.prototype.splice(start, 1): a negative start counts from the end.
Splice1(s, start) ==
    LET n == Len(s)
        from == IF start < 0 THEN (IF n + start < 0 THEN 0 ELSE n + start)
                ELSE (IF start > n THEN n ELSE start)
    IN  IF from >= n THEN s
        ELSE SubSeq(s, 1, from) \o SubSeq(s, from + 2, n)

\* The value task i resolves to.
TaskValue(i) == <<"value", i>>

Settled(i) == taskState[i] \in {"fulfilled", "rejected"}

InFlight == {i \in 1..tasks : taskState[i] = "running"}

Started == {i \in 1..tasks : taskState[i] # "idle"}

\* A store that appends, results.push(result): the first free slot is filled.
StoreResultPush(res, i, v) ==
    IF \E k \in 1..Len(res) : res[k] = Hole
    THEN [res EXCEPT ![CHOOSE k \in 1..Len(res) :
                          res[k] = Hole /\ \A j \in 1..(k - 1) : res[j] # Hole] = v]
    ELSE res

\* results[i] = result (a sparse-array store).
StoreResult(res, i, v) == [res EXCEPT ![i] = v]

\* A limit test that lets one more promise in: executing.length > concurrency.
LimitReachedAbove(pool, limit) == Len(pool) > limit

\* if (executing.length >= concurrency)
LimitReached(pool, limit) == Len(pool) >= limit

\* Promise.race(pool): among promises already settled when it is called, the
\* first in array order settles it; otherwise the first promise to settle later.
FirstSettled(pool) ==
    IF \E k \in 1..Len(pool) : Settled(pool[k])
    THEN pool[CHOOSE k \in 1..Len(pool) :
                 Settled(pool[k]) /\ \A j \in 1..(k - 1) : ~Settled(pool[j])]
    ELSE 0

\* ------------------------------------------------------------------------
\* Files and JSON values
\* ------------------------------------------------------------------------
\* A file that does not exist, and one whose content is not JSON.
Absent == [absent |-> TRUE]

Unreadable == [unreadable |-> TRUE]

\* JavaScript null, and a result not yet computed.
Null == [null |-> TRUE]

NotRun == [notRun |-> TRUE]

IsNull(v) == "null" \in DOMAIN v

\* v.field is undefined (falsy).
Lacks(v, field) == field \notin DOMAIN v

\* plugins.cachechk of a document written without one.
NoCachechk == "(undefined)"

\* { plugins: { cachechk, item } }; JSON.stringify leaves an undefined field out.
MakeConfig(cachechk, items) ==
    IF cachechk = NoCachechk THEN [plugins |-> [item |-> items]]
    ELSE [plugins |-> [cachechk |-> cachechk, item |-> items]]

\* config.plugins.cachechk
CachechkOf(config) ==
    IF Lacks(config.plugins, "cachechk") THEN NoCachechk ELSE config.plugins.cachechk

\* ------------------------------------------------------------------------
\* Strings: filenames, URLs and folder names (sequences of characters)
\* ------------------------------------------------------------------------
Digits == {"0", "1", "2", "3", "4", "5", "6", "7", "8", "9"}

Letters ==
    {"a", "b", "c", "d", "e", "f", "g", "h", "i", "j", "k", "l", "m",
     "n", "o", "p", "q", "r", "s", "t", "u", "v", "w", "x", "y", "z",
     "A", "B", "C", "D", "E", "F", "G", "H", "I", "J", "K", "L", "M",
     "N", "O", "P", "Q", "R", "S", "T", "U", "V", "W", "X", "Y", "Z"}

\* The regular expression classes \w and \s.
WordChars == Letters \cup Digits \cup {"_"}

SpaceChars == {" "}

QpkgExt == <<".", "q", "p", "k", "g">>

\* Where [\d.]+ stops when it starts at position k: the first position at or
\* after k whose character is neither a digit nor a dot.
RECURSIVE VersionRunEnd(_, _)
VersionRunEnd(f, k) ==
    IF k > Len(f) THEN k
    ELSE IF f[k] \in Digits \cup {"."} THEN VersionRunEnd(f, k + 1)
    ELSE k

\* /_([\d.]+)_([^.]+)\.qpkg$/ matches with its first "_" at position i.
QpkgMatchAt(f, i) ==
    /\ i \in 1..Len(f)
    /\ f[i] = "_"
    /\ LET j == VersionRunEnd(f, i + 1)
       IN  /\ j > i + 1
           /\ j <= Len(f)
           /\ f[j] = "_"
           /\ Len(f) - 5 >= j + 1
           /\ \A k \in (j + 1)..(Len(f) - 5) : f[k] # "."
           /\ SubSeq(f, Len(f) - 4, Len(f)) = QpkgExt

\* The start of the leftmost match, 0 when the expression does not match.
QpkgMatchStart(f) ==
    IF \E i \in 1..Len(f) : QpkgMatchAt(f, i)
    THEN CHOOSE i \in 1..Len(f) :
             QpkgMatchAt(f, i) /\ \A h \in 1..(i - 1) : ~QpkgMatchAt(f, h)
    ELSE 0

\* The parser taking the last place the expression could start at.
parseQpkgFilenameLast(f) ==
    LET starts == {i \in 1..Len(f) : QpkgMatchAt(f, i)}
        i == IF starts = {} THEN 0
             ELSE CHOOSE k \in starts : \A h \in starts : h <= k
        j == VersionRunEnd(f, i + 1)
    IN  IF i = 0 THEN [matched |-> FALSE]
        ELSE [matched |-> TRUE,
              version |-> SubSeq(f, i + 1, j - 1),
              arch |-> SubSeq(f, j + 1, Len(f) - 5)]

\* parseQpkgFilename: {version, arch}, or {} when there is no match.
parseQpkgFilename(f) ==
    LET i == QpkgMatchStart(f)
        j == VersionRunEnd(f, i + 1)
    IN  IF i = 0 THEN [matched |-> FALSE]
        ELSE [matched |-> TRUE,
              version |-> SubSeq(f, i + 1, j - 1),
              arch |-> SubSeq(f, j + 1, Len(f) - 5)]

\* filename.replace(/_[\d.]+_[^.]+\.qpkg$/, '')
StripQpkgSuffix(f) ==
    LET i == QpkgMatchStart(f)
    IN  IF i = 0 THEN f ELSE SubSeq(f, 1, i - 1)

\* The first position at or after k holding one of the characters cs, else Len + 1.
RECURSIVE FirstOf(_, _, _)
FirstOf(s, cs, k) ==
    IF k > Len(s) THEN k
    ELSE IF s[k] \in cs THEN k
    ELSE FirstOf(s, cs, k + 1)

\* new URL(url).pathname: what follows scheme://host, without query and hash.
UrlPathname(url) ==
    LET colon == FirstOf(url, {":"}, 1)
        slash == FirstOf(url, {"/"}, colon + 3)
        stop == FirstOf(url, {"?", "#"}, slash)
    IN  IF slash > Len(url) THEN <<"/">> ELSE SubSeq(url, slash, stop - 1)

RECURSIVE StripTrailingSlashes(_)
StripTrailingSlashes(path) ==
    IF Len(path) > 0 /\ path[Len(path)] = "/"
    THEN StripTrailingSlashes(SubSeq(path, 1, Len(path) - 1))
    ELSE path

\* path.basename
Basename(path) ==
    LET q == StripTrailingSlashes(path)
        slashes == {k \in 1..Len(q) : q[k] = "/"}
        last == IF slashes = {} THEN 0
                ELSE CHOOSE k \in slashes : \A h \in slashes : h <= k
    IN  SubSeq(q, last + 1, Len(q))

getFilenameFromUrl(url) == Basename(UrlPathname(url))

\* .replace(/[^\w\s-]/g, '')
RECURSIVE KeepFolderChars(_)
KeepFolderChars(s) ==
    IF s = <<>> THEN <<>>
    ELSE (IF Head(s) \in WordChars \cup SpaceChars \cup {"-"} THEN <<Head(s)>> ELSE <<>>)
         \o KeepFolderChars(Tail(s))

\* .replace(/\s+/g, '_'): each run of whitespace becomes one underscore.
RECURSIVE SpacesToUnderscore(_)
SpacesToUnderscore(s) ==
    IF s = <<>> THEN <<>>
    ELSE IF Head(s) \in SpaceChars
         THEN IF Len(s) > 1 /\ s[2] \in SpaceChars
              THEN SpacesToUnderscore(Tail(s))
              ELSE <<"_">> \o SpacesToUnderscore(Tail(s))
         ELSE <<Head(s)>> \o SpacesToUnderscore(Tail(s))

\* .replace(/_+/g, '_')
RECURSIVE CollapseUnderscores(_)
CollapseUnderscores(s) ==
    IF s = <<>> THEN <<>>
    ELSE IF Head(s) = "_" /\ Len(s) > 1 /\ s[2] = "_"
         THEN CollapseUnderscores(Tail(s))
         ELSE <<Head(s)>> \o CollapseUnderscores(Tail(s))

\* .trim()
RECURSIVE Trim(_)
Trim(s) ==
    IF s # <<>> /\ Head(s) \in SpaceChars THEN Trim(Tail(s))
    ELSE IF s # <<>> /\ s[Len(s)] \in SpaceChars THEN Trim(SubSeq(s, 1, Len(s) - 1))
    ELSE s

getProductFolderName(productName) ==
    Trim(CollapseUnderscores(SpacesToUnderscore(KeepFolderChars(productName))))

\* downloadUpdates' locals when no call is in progress.
NoDownload ==
    [cachechk |-> "", apps |-> <<>>, tasks |-> <<>>, appDownloadStatus |-> <<>>,
     packagesMetadata |-> <<>>,
     totalDownloaded |-> 0, totalSkipped |-> 0, totalFailed |-> 0,
     found |-> {}, fetched |-> {}]

NoLedger == [exists |-> FALSE, records |-> {}]

\* A remote root folder without product folders.
EmptyRemote == {}

\* The pipeline's files while another component is exercised.
SyncIdle ==
    /\ updateFile = Absent
    /\ downloads = {}
    /\ metadataFile = Absent
    /\ uploadProgress = NoLedger
    /\ remote = EmptyRemote
    /\ dl = NoDownload
    /\ lastRun = [op |-> "none"]

\* No call of downloadFile, no run of upload.ts.
NoDownloadFile == [phase |-> "idle"]

NoUpload == [phase |-> "idle"]

NoCall == [phase |-> "idle"]

RunIdle ==
    /\ df = NoDownloadFile
    /\ ul = NoUpload
    /\ client = NoCall

\* The differ's variables while another component is exercised.
DiffIdle ==
    /\ appsFile = Absent
    /\ newConfig = MakeConfig("c0", <<>>)
    /\ differences = NotRun
    /\ oldConfig = Null
    /\ configProgress = NoLedger

\* The executor's variables while another component is exercised.
ExecIdle ==
    /\ tasks = 0
    /\ concurrency = 1
    /\ taskState = <<>>
    /\ results = <<>>
    /\ executing = <<>>
    /\ idx = 1
    /\ pc = "idle"
    /\ awaited = <<>>
    /\ winner = 0

ExecInit ==
    /\ tasks \in 1..MaxTasks
    /\ concurrency \in 1..MaxLimit
    /\ taskState = [i \in 1..tasks |-> "idle"]
    /\ results = [i \in 1..tasks |-> Hole]
    /\ executing = <<>>
    /\ idx = 1
    /\ pc = "loop"
    /\ awaited = <<>>
    /\ winner = 0
    /\ DiffIdle
    /\ SyncIdle
    /\ RunIdle

\* ------------------------------------------------------------------------
\* promiseWithConcurrency (strict)
\* ------------------------------------------------------------------------

\* One iteration of the for loop up to its await: the task is called, its
\* promise pushed, and the limit tested.
StrictAdmit ==
    /\ pc = "loop"
    /\ idx <= tasks
    /\ taskState' = [taskState EXCEPT ![idx] = "running"]
    /\ executing' = Append(executing, idx)
    /\ IF LimitReached(executing', concurrency)
       THEN /\ pc' = "race"
            /\ awaited' = executing'
            /\ winner' = FirstSettled(executing')
            /\ idx' = idx
       ELSE /\ pc' = IF idx = tasks THEN "all" ELSE "loop"
            /\ awaited' = IF idx = tasks THEN executing' ELSE <<>>
            /\ winner' = 0
            /\ idx' = idx + 1
    /\ UNCHANGED <<tasks, concurrency, results>>
    /\ UNCHANGED nonExecVars

\* Task i settles: the wrapper stores the value (or the rejection passes
\* through it) and its promise settles, which may settle the pending race.
StrictSettleExec(i, ok) ==
    /\ i \in 1..tasks
    /\ taskState[i] = "running"
    /\ taskState' = [taskState EXCEPT ![i] = IF ok THEN "fulfilled" ELSE "rejected"]
    /\ results' = IF ok THEN StoreResult(results, i, TaskValue(i)) ELSE results
    /\ winner' = IF pc = "race" /\ winner = 0 /\ i \in Range(awaited) THEN i ELSE winner
    /\ UNCHANGED <<tasks, concurrency, executing, idx, pc, awaited>>

\* A task of a stand-alone run settles: it touches nothing but the executor.
StrictSettle(i, ok) ==
    /\ StrictSettleExec(i, ok)
    /\ UNCHANGED nonExecVars

\* executing.splice(executing.findIndex(p => p === promise), 1), promise being
\* the one pushed in this iteration.
StrictRemove(pool, promise) == Splice1(pool, IndexOf(pool, promise))

\* A race whose rejection is swallowed: the loop goes on after a rejected winner.
StrictResumeDrain ==
    /\ pc = "race"
    /\ winner # 0
    /\ executing' = StrictRemove(executing, idx)
    /\ idx' = idx + 1
    /\ pc' = IF idx = tasks THEN "all" ELSE "loop"
    /\ awaited' = IF idx = tasks THEN executing' ELSE <<>>
    /\ winner' = 0
    /\ UNCHANGED <<tasks, concurrency, taskState, results>>
    /\ UNCHANGED nonExecVars

\* The await Promise.race(executing) returns or throws.
StrictResume ==
    /\ pc = "race"
    /\ winner # 0
    /\ IF taskState[winner] = "rejected"
       THEN /\ pc' = "rejected"
            /\ UNCHANGED <<executing, idx, awaited>>
       ELSE /\ executing' = StrictRemove(executing, idx)
            /\ idx' = idx + 1
            /\ pc' = IF idx = tasks THEN "all" ELSE "loop"
            /\ awaited' = IF idx = tasks THEN executing' ELSE <<>>
    /\ winner' = 0
    /\ UNCHANGED <<tasks, concurrency, taskState, results>>
    /\ UNCHANGED nonExecVars

\* await Promise.all(executing); return results
StrictAll ==
    /\ pc = "all"
    /\ \/ /\ \E k \in 1..Len(awaited) : taskState[awaited[k]] = "rejected"
          /\ pc' = "rejected"
       \/ /\ \A k \in 1..Len(awaited) : taskState[awaited[k]] = "fulfilled"
          /\ pc' = "resolved"
    /\ UNCHANGED <<tasks, concurrency, taskState, results, executing, idx, awaited, winner>>
    /\ UNCHANGED nonExecVars

StrictNext ==
    \/ StrictAdmit
    \/ \E i \in 1..MaxTasks, ok \in BOOLEAN : StrictSettle(i, ok)
    \/ StrictResume
    \/ StrictAll

SpecStrict == ExecInit /\ [][StrictNext]_vars

\* ------------------------------------------------------------------------
\* promiseWithConcurrencySafe (and promiseWithConcurrency of upload.ts)
\* ------------------------------------------------------------------------

\* One iteration of the for..of loop up to its await.
SafeAdmitExec ==
    /\ pc = "loop"
    /\ idx <= tasks
    /\ taskState' = [taskState EXCEPT ![idx] = "running"]
    /\ executing' = Append(executing, idx)
    /\ IF LimitReached(executing', concurrency)
       THEN /\ pc' = "race"
            /\ awaited' = executing'
            /\ winner' = FirstSettled(executing')
            /\ idx' = idx
       ELSE /\ pc' = IF idx = tasks THEN "all" ELSE "loop"
            /\ awaited' = IF idx = tasks THEN executing' ELSE <<>>
            /\ winner' = 0
            /\ idx' = idx + 1
    /\ UNCHANGED <<tasks, concurrency, results>>

SafeAdmit ==
    /\ SafeAdmitExec
    /\ UNCHANGED nonExecVars

\* executing.splice(executing.indexOf(wrappedPromise), 1)
SafeRemove(pool, wrappedPromise) == Splice1(pool, IndexOf(pool, wrappedPromise))

\* Task i settles: the try/catch wrapper stores the value, or undefined for a
\* rejection, and resolves; the then-callback takes wrappedPromise out of the
\* pool and wrappedPromise resolves, which may settle the pending race.
SafeSettleExec(i, ok) ==
    /\ i \in 1..tasks
    /\ taskState[i] = "running"
    /\ taskState' = [taskState EXCEPT ![i] = IF ok THEN "fulfilled" ELSE "rejected"]
    /\ results' = StoreResult(results, i, IF ok THEN TaskValue(i) ELSE Undefined)
    /\ executing' = SafeRemove(executing, i)
    /\ winner' = IF pc = "race" /\ winner = 0 /\ i \in Range(awaited) THEN i ELSE winner
    /\ UNCHANGED <<tasks, concurrency, idx, pc, awaited>>

SafeSettle(i, ok) ==
    /\ SafeSettleExec(i, ok)
    /\ UNCHANGED nonExecVars

\* The await Promise.race(executing) returns (a wrappedPromise never rejects).
SafeResume ==
    /\ pc = "race"
    /\ winner # 0
    /\ idx' = idx + 1
    /\ pc' = IF idx = tasks THEN "all" ELSE "loop"
    /\ awaited' = IF idx = tasks THEN executing ELSE <<>>
    /\ winner' = 0
    /\ UNCHANGED <<tasks, concurrency, taskState, results, executing>>
    /\ UNCHANGED nonExecVars

\* await Promise.all(executing); return results
SafeAll ==
    /\ pc = "all"
    /\ \A k \in 1..Len(awaited) : Settled(awaited[k])
    /\ pc' = "resolved"
    /\ UNCHANGED <<tasks, concurrency, taskState, results, executing, idx, awaited, winner>>
    /\ UNCHANGED nonExecVars

SafeNext ==
    \/ SafeAdmit
    \/ \E i \in 1..MaxTasks, ok \in BOOLEAN : SafeSettle(i, ok)
    \/ SafeResume
    \/ SafeAll

SpecSafe == ExecInit /\ [][SafeNext]_vars

\* ------------------------------------------------------------------------
\* Catalog Differ: findDifferences and the read of the previous catalog
\* ------------------------------------------------------------------------

\* app.internalName || app.name
AppKey(app) == IF app.internalName # <<>> THEN app.internalName ELSE app.name

\* `${p.platformID}:${p.location}`
PlatformKey(p) == p.platformID \o <<":">> \o p.location

\* A map keyed by the display name alone.
OldAppsMapByName(oldApps) ==
    [k \in {oldApps[n].name : n \in 1..Len(oldApps)} |->
        oldApps[CHOOSE n \in 1..Len(oldApps) :
                   /\ oldApps[n].name = k
                   /\ \A m \in (n + 1)..Len(oldApps) : oldApps[m].name # k]]

\* oldAppsMap: for (const app of oldApps) oldAppsMap.set(key, app); a later
\* entry with the same key replaces an earlier one.
OldAppsMap(oldApps) ==
    [k \in {AppKey(oldApps[n]) : n \in 1..Len(oldApps)} |->
        oldApps[CHOOSE n \in 1..Len(oldApps) :
                   /\ AppKey(oldApps[n]) = k
                   /\ \A m \in (n + 1)..Len(oldApps) : AppKey(oldApps[m]) # k]]

\* hasChanges: some platform of newApp has a key that oldPlatformsSet lacks.
HasChanges(oldApp, newApp) ==
    LET oldPlatformsSet == {PlatformKey(oldApp.platform[n]) : n \in 1..Len(oldApp.platform)}
    IN  \E n \in 1..Len(newApp.platform) :
            PlatformKey(newApp.platform[n]) \notin oldPlatformsSet

\* The body of the loop over newApps: whether newApp is pushed to differences.
IsNewOrUpdated(oldAppsMap, newApp) ==
    LET key == AppKey(newApp)
    IN  IF key \notin DOMAIN oldAppsMap THEN TRUE
        ELSE IF oldAppsMap[key].version # newApp.version THEN TRUE
        ELSE HasChanges(oldAppsMap[key], newApp)

\* A differ that reports nothing when there is no usable previous catalog.
findDifferencesNoBaseline(old, new) ==
    IF IsNull(old) \/ Lacks(old, "plugins") \/ Lacks(old.plugins, "item")
    THEN MakeConfig(CachechkOf(new), <<>>)
    ELSE LET oldAppsMap == OldAppsMap(old.plugins.item)
         IN  MakeConfig(CachechkOf(new),
                        SelectSeq(new.plugins.item,
                                  LAMBDA newApp : IsNewOrUpdated(oldAppsMap, newApp)))

\* A differ that reports every entry of the catalog it was given.
findDifferencesAll(old, new) == new

findDifferences(old, new) ==
    IF IsNull(old) \/ Lacks(old, "plugins") \/ Lacks(old.plugins, "item")
    THEN new
    ELSE LET oldAppsMap == OldAppsMap(old.plugins.item)
         IN  MakeConfig(CachechkOf(new),
                        SelectSeq(new.plugins.item,
                                  LAMBDA newApp : IsNewOrUpdated(oldAppsMap, newApp)))

\* main: oldConfig stays null when apps.json is missing or its json() throws.
ReadOldConfig(file) ==
    IF file = Absent THEN Null
    ELSE IF file = Unreadable THEN Null
    ELSE file

\* --- the catalogs the differ is exercised on ---
P1 == [platformID |-> <<"x">>, location |-> <<"h", ":", "/", "a">>, signature |-> "s1"]

P2 == [platformID |-> <<"x", ":", "h">>, location |-> <<"/", "a">>, signature |-> "s2"]

P3 == [platformID |-> <<"y">>, location |-> <<"h", ":", "/", "b">>, signature |-> "s3"]

PlatformPool == <<P1, P2, P3>>

RECURSIVE PickFrom(_, _, _)
PickFrom(pool, S, k) ==
    IF k > Len(pool) THEN <<>>
    ELSE (IF k \in S THEN <<pool[k]>> ELSE <<>>) \o PickFrom(pool, S, k + 1)

PlatformLists ==
    {PickFrom(PlatformPool, S, 1) :
        S \in {T \in SUBSET (1..Len(PlatformPool)) : Cardinality(T) <= MaxPlatforms}}

V10 == <<"1", ".", "0">>

V11 == <<"1", ".", "1">>

Versions == {V10, V11}

\* An entry keyed by its internalName, and one keyed by its name.
EntriesA ==
    {[name |-> <<"A">>, internalName |-> <<"a">>, version |-> v, platform |-> pl] :
        v \in Versions, pl \in PlatformLists}

EntriesB ==
    {[name |-> <<"B">>, internalName |-> <<>>, version |-> v, platform |-> pl] :
        v \in Versions, pl \in PlatformLists}

\* Catalog snapshots: each key at most once (the data model's invariant).
Catalogs ==
    {MakeConfig("c1", a \o b) :
        a \in {<<>>} \cup {<<e>> : e \in EntriesA},
        b \in {<<>>} \cup {<<e>> : e \in EntriesB}}

\* JSON documents that are no catalog: without plugins, without plugins.item.
NoPlugins == [other |-> TRUE]

NoItem == [plugins |-> [cachechk |-> "c1"]]

DiffInit ==
    /\ appsFile \in {Absent, Unreadable, NoPlugins, NoItem} \cup Catalogs
    /\ newConfig \in Catalogs
    /\ differences = NotRun
    /\ oldConfig = Null
    /\ configProgress = NoLedger
    /\ ExecIdle
    /\ SyncIdle
    /\ RunIdle

\* main of fetch-xml.ts from the read of apps.json to the call of findDifferences.
RunDiff ==
    /\ differences = NotRun
    /\ oldConfig' = ReadOldConfig(appsFile)
    /\ differences' = findDifferences(oldConfig', newConfig)
    /\ UNCHANGED <<appsFile, newConfig, configProgress>>
    /\ UNCHANGED execVars
    /\ UNCHANGED syncVars
    /\ UNCHANGED runVars

DiffNext == RunDiff

SpecDiff == DiffInit /\ [][DiffNext]_vars

\* ------------------------------------------------------------------------
\* The catalogs of the pipeline (documents that conform to AppsConfig)
\* ------------------------------------------------------------------------
X86 == <<"x", "8", "6">>

Arm == <<"a", "r", "m">>

CdnBase == <<"h", ":", "/", "/", "q", "/", "d", "/">>

\* <product>_<version>_<arch>.qpkg
QpkgName(product, version, arch) ==
    product \o <<"_">> \o version \o <<"_">> \o arch \o QpkgExt

SyncPlatform(product, version, arch) ==
    [platformID |-> arch,
     location |-> CdnBase \o QpkgName(product, version, arch),
     signature |-> "sig"]

\* Application A, keyed by its internalName, in two versions.
AppA10 ==
    [name |-> <<"A">>, internalName |-> <<"a">>, version |-> V10,
     platform |-> <<SyncPlatform(<<"A">>, V10, X86)>>]

AppA11 ==
    [name |-> <<"A">>, internalName |-> <<"a">>, version |-> V11,
     platform |-> <<SyncPlatform(<<"A">>, V11, X86), SyncPlatform(<<"A">>, V11, Arm)>>]

\* Application "B x", keyed by its name; its files are named B_...
AppB10 ==
    [name |-> <<"B", " ", "x">>, internalName |-> <<>>, version |-> V10,
     platform |-> <<SyncPlatform(<<"B">>, V10, X86)>>]

\* What the vendor publishes over time.
SyncCatalogs ==
    {MakeConfig("c1", <<AppA10>>),
     MakeConfig("c2", <<AppA11>>),
     MakeConfig("c3", <<AppA11, AppB10>>)}

\* ------------------------------------------------------------------------
\* fetch-xml.ts: one fetch cycle
\* ------------------------------------------------------------------------

\* main, from the read of apps.json to the write or removal of
\* update-apps.json; json is the catalog the vendor served.
FetchCycle(json) ==
    /\ pc = "idle"
    /\ oldConfig' = ReadOldConfig(appsFile)
    /\ newConfig' = json
    /\ differences' = findDifferences(oldConfig', json)
    /\ appsFile' = json
    /\ updateFile' = IF Len(differences'.plugins.item) > 0 THEN differences' ELSE Absent
    /\ lastRun' = [op |-> "fetch", pending |-> differences'.plugins.item]
    /\ UNCHANGED configProgress
    /\ UNCHANGED <<downloads, metadataFile, uploadProgress, remote, dl>>
    /\ UNCHANGED execVars
    /\ UNCHANGED runVars

\* ------------------------------------------------------------------------
\* download-apps.ts: downloadUpdates and removeDownloadedApps
\* ------------------------------------------------------------------------

\* The keys of a list of apps, in order.
RECURSIVE AppKeys(_)
AppKeys(apps) ==
    IF apps = <<>> THEN <<>> ELSE <<AppKey(Head(apps))>> \o AppKeys(Tail(apps))

\* {app, platform} for every platform of app from position n on, skipping a
\* filename that is already in downloadedFiles.
RECURSIVE PlatformTasks(_, _, _)
PlatformTasks(app, n, downloadedFiles) ==
    IF n > Len(app.platform) THEN <<>>
    ELSE LET filename == getFilenameFromUrl(app.platform[n].location)
         IN  IF filename \in downloadedFiles
             THEN PlatformTasks(app, n + 1, downloadedFiles)
             ELSE <<[app |-> app, platform |-> app.platform[n]]>>
                  \o PlatformTasks(app, n + 1, downloadedFiles \cup {filename})

TaskFiles(taskList) ==
    {getFilenameFromUrl(taskList[n].platform.location) : n \in 1..Len(taskList)}

\* The task list: for (const app of apps) for (const platform of app.platform).
RECURSIVE BuildDownloadTasks(_, _)
BuildDownloadTasks(apps, downloadedFiles) ==
    IF apps = <<>> THEN <<>>
    ELSE LET mine == PlatformTasks(Head(apps), 1, downloadedFiles)
         IN  mine \o BuildDownloadTasks(Tail(apps), downloadedFiles \cup TaskFiles(mine))

\* The PackageMetadata entry of a task's file.
MetadataOf(task) ==
    [productName |-> task.app.name,
     version |-> task.app.version,
     architecture |-> task.platform.platformID,
     filename |-> getFilenameFromUrl(task.platform.location),
     signature |-> task.platform.signature]

\* metadataMap.set(meta.filename, meta): a known filename keeps its place in
\* the map and gets the new entry, a new one goes last.
MapSet(entries, meta) ==
    IF \E n \in 1..Len(entries) : entries[n].filename = meta.filename
    THEN [n \in 1..Len(entries) |->
             IF entries[n].filename = meta.filename THEN meta ELSE entries[n]]
    ELSE Append(entries, meta)

RECURSIVE MergeMetadata(_, _)
MergeMetadata(entries, new) ==
    IF new = <<>> THEN entries
    ELSE MergeMetadata(MapSet(entries, Head(new)), Tail(new))

FileExists(dir, filename) == \E file \in dir : file.filename = filename

\* The directory once a file of that name was written (again).
WriteFile(dir, filename, intact) ==
    {file \in dir : file.filename # filename}
        \cup {[filename |-> filename, intact |-> intact]}

\* A removal that keeps the file and writes the empty list into it.
removeDownloadedAppsKeepFile(file, downloadedApps) ==
    IF file = Absent THEN Absent
    ELSE MakeConfig(CachechkOf(file),
                    SelectSeq(file.plugins.item,
                              LAMBDA app : AppKey(app) \notin downloadedApps))

\* removeDownloadedApps: update-apps.json as the call leaves it.
removeDownloadedApps(file, downloadedApps) ==
    IF file = Absent THEN Absent
    ELSE LET remainingApps ==
                 SelectSeq(file.plugins.item,
                           LAMBDA app : AppKey(app) \notin downloadedApps)
         IN  IF Len(remainingApps) = 0 THEN Absent
             ELSE MakeConfig(CachechkOf(file), remainingApps)

\* downloadUpdates returns early: no update-apps.json, or one without items,
\* which it removes.
DownloadUpdatesEmpty ==
    /\ pc = "idle"
    /\ \/ updateFile = Absent
       \/ updateFile # Absent /\ Len(updateFile.plugins.item) = 0
    /\ updateFile' = Absent
    /\ lastRun' = [op |-> "download", done |-> TRUE, pending |-> <<>>]
    /\ UNCHANGED <<downloads, metadataFile, uploadProgress, remote, dl>>
    /\ UNCHANGED diffVars
    /\ UNCHANGED runVars
    /\ UNCHANGED execVars

\* downloadUpdates up to its call of promiseWithConcurrency(taskFunctions, limit).
DownloadStart(limit) ==
    /\ pc = "idle"
    /\ updateFile # Absent
    /\ Len(updateFile.plugins.item) > 0
    /\ LET apps == updateFile.plugins.item
           downloadTasks == BuildDownloadTasks(apps, {})
       IN  /\ dl' = [cachechk |-> CachechkOf(updateFile),
                     apps |-> apps,
                     tasks |-> downloadTasks,
                     appDownloadStatus |-> [k \in Range(AppKeys(apps)) |-> TRUE],
                     packagesMetadata |-> <<>>,
                     totalDownloaded |-> 0, totalSkipped |-> 0, totalFailed |-> 0,
                     found |-> {}, fetched |-> {}]
           /\ tasks' = Len(downloadTasks)
           /\ taskState' = [i \in 1..Len(downloadTasks) |-> "idle"]
           /\ results' = [i \in 1..Len(downloadTasks) |-> Hole]
           /\ pc' = IF Len(downloadTasks) = 0 THEN "all" ELSE "loop"
    /\ concurrency' = limit
    /\ executing' = <<>>
    /\ idx' = 1
    /\ awaited' = <<>>
    /\ winner' = 0
    /\ lastRun' = [op |-> "download", done |-> FALSE]
    /\ UNCHANGED <<updateFile, downloads, metadataFile, uploadProgress, remote>>
    /\ UNCHANGED diffVars
    /\ UNCHANGED runVars

\* What downloadFile can come to after its retries: the file written in full,
\* nothing written, or the stream broken after bytes were written.
DownloadOutcomes == {"ok", "failed", "partial"}

\* Task function i of downloadUpdates or downloadAllApps returns: the file was
\* there and is skipped, or downloadFile came to the given outcome.  The
\* function never throws.  found holds the filenames the task saw on disk,
\* fetched those it handed to downloadFile.  Only downloadUpdates keeps an
\* appDownloadStatus.
DownloadTaskSettleSync(i, outcome) ==
    /\ lastRun.op \in {"download", "downloadAll"}
    /\ StrictSettleExec(i, TRUE)
    /\ LET task == dl.tasks[i]
           filename == getFilenameFromUrl(task.platform.location)
           appKey == AppKey(task.app)
       IN  IF FileExists(downloads, filename)
           THEN /\ outcome = "ok"
                /\ dl' = [dl EXCEPT
                             !.packagesMetadata = Append(@, MetadataOf(task)),
                             !.totalSkipped = @ + 1,
                             !.found = @ \cup {filename}]
                /\ downloads' = downloads
           ELSE IF outcome = "ok"
           THEN /\ dl' = [dl EXCEPT
                             !.packagesMetadata = Append(@, MetadataOf(task)),
                             !.totalDownloaded = @ + 1,
                             !.fetched = @ \cup {filename}]
                /\ downloads' = WriteFile(downloads, filename, TRUE)
           ELSE /\ dl' = [dl EXCEPT
                             !.appDownloadStatus =
                                 IF lastRun.op = "download"
                                 THEN [@ EXCEPT ![appKey] = FALSE] ELSE @,
                             !.totalFailed = @ + 1,
                             !.fetched = @ \cup {filename}]
                /\ downloads' = IF outcome = "partial"
                                THEN WriteFile(downloads, filename, FALSE)
                                ELSE downloads
    /\ UNCHANGED <<updateFile, metadataFile, uploadProgress, remote, lastRun>>
    /\ UNCHANGED diffVars

DownloadTaskSettle(i, outcome) ==
    /\ DownloadTaskSettleSync(i, outcome)
    /\ UNCHANGED runVars

\* downloadUpdates after the executor returned: the apps whose status is still
\* true, the merge and write of metadata.json, removeDownloadedApps.
DownloadFinish ==
    /\ pc = "resolved"
    /\ lastRun.op = "download"
    /\ ~lastRun.done
    /\ LET successfullyDownloadedApps ==
               {k \in DOMAIN dl.appDownloadStatus : dl.appDownloadStatus[k]}
           existingMetadata ==
               IF metadataFile = Absent THEN <<>> ELSE metadataFile.entries
       IN  /\ metadataFile' =
                  [entries |-> MergeMetadata(existingMetadata, dl.packagesMetadata)]
           /\ updateFile' = removeDownloadedApps(updateFile, successfullyDownloadedApps)
           /\ lastRun' = [op |-> "download", done |-> TRUE,
                          pending |-> SelectSeq(dl.apps,
                              LAMBDA app : AppKey(app) \notin successfullyDownloadedApps)]
    /\ UNCHANGED <<downloads, uploadProgress, remote, dl>>
    /\ UNCHANGED diffVars
    /\ UNCHANGED runVars
    /\ UNCHANGED execVars

\* The process of the download script ends once nothing is in flight any more.
DownloadExit ==
    /\ pc = "resolved"
    /\ lastRun.op \in {"download", "downloadAll"}
    /\ lastRun.done
    /\ \A i \in 1..tasks : Settled(i)
    /\ tasks' = 0
    /\ concurrency' = 1
    /\ taskState' = <<>>
    /\ results' = <<>>
    /\ executing' = <<>>
    /\ idx' = 1
    /\ pc' = "idle"
    /\ awaited' = <<>>
    /\ winner' = 0
    /\ dl' = NoDownload
    /\ UNCHANGED <<updateFile, downloads, metadataFile, uploadProgress, remote, lastRun>>
    /\ UNCHANGED diffVars
    /\ UNCHANGED runVars

\* update-apps.json as check-missing-files leaves it when nothing is missing.
EmptiedFile == MakeConfig("c1", <<>>)

SyncInit ==
    /\ appsFile \in {Absent, MakeConfig("c1", <<AppA10>>)}
    /\ updateFile \in {Absent, EmptiedFile}
    /\ newConfig = MakeConfig("c0", <<>>)
    /\ differences = NotRun
    /\ oldConfig = Null
    /\ configProgress = NoLedger
    /\ downloads = {}
    /\ metadataFile = Absent
    /\ uploadProgress = NoLedger
    /\ remote = EmptyRemote
    /\ dl = NoDownload
    /\ lastRun = [op |-> "none"]
    /\ ExecIdle
    /\ RunIdle

SyncNext ==
    \/ \E json \in SyncCatalogs : FetchCycle(json)
    \/ DownloadUpdatesEmpty
    \/ \E limit \in 1..MaxDownloadLimit : DownloadStart(limit)
    \/ StrictAdmit
    \/ \E i \in 1..MaxTasks, outcome \in DownloadOutcomes : DownloadTaskSettle(i, outcome)
    \/ StrictResume
    \/ StrictAll
    \/ DownloadFinish
    \/ DownloadExit

SpecSync == SyncInit /\ [][SyncNext]_vars

\* ------------------------------------------------------------------------
\* Reconcilers: check-existing-files.ts, check-missing-files.ts and the
\* remote check of utils/file.ts (also the second script of
\* check-existing-files.ts), with checkFileExistsInCTFile of ctfile-utils
\* ------------------------------------------------------------------------
Unknown == <<"u", "n", "k", "n", "o", "w", "n">>

\* `${productName}-${version}-${arch}`
LedgerKey(productName, version, arch) ==
    productName \o <<"-">> \o version \o <<"-">> \o arch

\* uploadedIndex: the keys of the ledger's filenames that parse.
UploadedIndex(ledger) ==
    {LedgerKey(StripQpkgSuffix(record.filename),
               parseQpkgFilename(record.filename).version,
               parseQpkgFilename(record.filename).arch) :
        record \in {r \in ledger.records : parseQpkgFilename(r.filename).matched}}

\* parsed.arch || 'unknown'
ArchOrUnknown(parsed) == IF parsed.matched THEN parsed.arch ELSE Unknown

\* The key the ledger pass looks up for a platform of app.
PlatformLedgerKey(app, platform) ==
    LET filename == getFilenameFromUrl(platform.location)
    IN  LedgerKey(StripQpkgSuffix(filename), app.version,
                  ArchOrUnknown(parseQpkgFilename(filename)))

\* The apps from position n on with their platforms cut down to the positions
\* in keep; an app without such a platform is left out
\* ({...app, platform: remainingPlatforms}).
RECURSIVE KeepPlatforms(_, _, _)
KeepPlatforms(apps, n, keep) ==
    IF n > Len(apps) THEN <<>>
    ELSE LET remaining == {k \in 1..Len(apps[n].platform) : <<n, k>> \in keep}
         IN  (IF remaining = {} THEN <<>>
              ELSE <<[apps[n] EXCEPT !.platform = PickFrom(apps[n].platform, remaining, 1)]>>)
             \o KeepPlatforms(apps, n + 1, keep)

\* Every (app, platform) position of a list of apps.
PlatformPositions(apps) ==
    UNION {{<<n, k>> : k \in 1..Len(apps[n].platform)} : n \in 1..Len(apps)}

\* A ledger pass that removes the file when no app is left.
LedgerPassWriteOrDelete(file, updatedApps, totalExisting) ==
    IF Len(updatedApps) = 0 THEN Absent
    ELSE IF Len(updatedApps) < Len(file.plugins.item) \/ totalExisting > 0
    THEN MakeConfig(CachechkOf(file), updatedApps)
    ELSE file

\* "Save updated JSON" of check-existing-files.ts: update-apps.json afterwards.
LedgerPassWrite(file, updatedApps, totalExisting) ==
    IF Len(updatedApps) < Len(file.plugins.item) \/ totalExisting > 0
    THEN MakeConfig(CachechkOf(file), updatedApps)
    ELSE file

\* main of check-existing-files.ts: the pass against upload-progress.json.
CheckExistingFiles ==
    /\ pc = "idle"
    /\ IF updateFile = Absent
       THEN /\ lastRun' = [op |-> "ledger", ran |-> FALSE]
            /\ UNCHANGED updateFile
       ELSE IF Len(updateFile.plugins.item) = 0
       THEN /\ lastRun' = [op |-> "ledger", ran |-> FALSE]
            /\ UNCHANGED updateFile
       ELSE LET apps == updateFile.plugins.item
                ledger == IF configProgress.exists THEN configProgress ELSE NoLedger
                uploadedIndex == UploadedIndex(ledger)
                Found(n, k) ==
                    PlatformLedgerKey(apps[n], apps[n].platform[k]) \in uploadedIndex
                missing == {pos \in PlatformPositions(apps) : ~Found(pos[1], pos[2])}
                updatedApps == KeepPlatforms(apps, 1, missing)
                totalExisting ==
                    Cardinality({pos \in PlatformPositions(apps) : Found(pos[1], pos[2])})
            IN  /\ updateFile' = LedgerPassWrite(updateFile, updatedApps, totalExisting)
                /\ lastRun' = [op |-> "ledger", ran |-> TRUE, existed |-> TRUE,
                               totalPlatforms |-> Cardinality(PlatformPositions(apps)),
                               allFound |-> \A pos \in PlatformPositions(apps) :
                                                Found(pos[1], pos[2]),
                               examined |-> apps,
                               pending |-> updatedApps]
    /\ UNCHANGED <<downloads, metadataFile, uploadProgress, remote, dl>>
    /\ UNCHANGED diffVars
    /\ UNCHANGED runVars
    /\ UNCHANGED execVars

\* checkFileExistsInCTFile with a catch that answers true.
checkFileExistsOrError(storage, lookupOk, productName, version, architecture) ==
    LET productFolderName == getProductFolderName(productName)
    IN  \/ ~lookupOk
        \/ \E f \in storage :
               /\ f.name = productFolderName
               /\ f.hasMonth
               /\ \E filename \in f.files :
                      LET parsed == parseQpkgFilename(filename)
                      IN  /\ parsed.matched
                          /\ parsed.version = version
                          /\ parsed.arch = architecture

\* checkFileExistsInCTFile: the product folder, this month's folder in it, and
\* a listed file that parses to the version and architecture asked for.  A
\* lookup that fails (an error, a response that is not ok) answers false.
checkFileExistsInCTFile(storage, lookupOk, productName, version, architecture) ==
    LET productFolderName == getProductFolderName(productName)
        productFolders == {f \in storage : f.name = productFolderName}
    IN  /\ lookupOk
        /\ productFolders # {}
        /\ \E f \in productFolders :
               /\ f.hasMonth
               /\ \E filename \in f.files :
                      LET parsed == parseQpkgFilename(filename)
                      IN  /\ parsed.matched
                          /\ parsed.version = version
                          /\ parsed.arch = architecture

\* parsed.version || version
VersionOr(parsed, version) == IF parsed.matched THEN parsed.version ELSE version

\* main of check-missing-files.ts: the whole catalog against the remote
\* storage; failed are the platforms whose lookup fails.
CheckMissingFiles(failed) ==
    /\ pc = "idle"
    /\ IF appsFile = Absent
       THEN /\ lastRun' = [op |-> "missing", ran |-> FALSE]
            /\ UNCHANGED updateFile
       ELSE IF Len(appsFile.plugins.item) = 0
       THEN /\ lastRun' = [op |-> "missing", ran |-> FALSE]
            /\ UNCHANGED updateFile
       ELSE LET apps == appsFile.plugins.item
                Exists(n, k) ==
                    LET filename == getFilenameFromUrl(apps[n].platform[k].location)
                        parsed == parseQpkgFilename(filename)
                    IN  checkFileExistsInCTFile(remote, <<n, k>> \notin failed,
                                                apps[n].name,
                                                VersionOr(parsed, apps[n].version),
                                                ArchOrUnknown(parsed))
                missing == {pos \in PlatformPositions(apps) : ~Exists(pos[1], pos[2])}
                missingApps == KeepPlatforms(apps, 1, missing)
            IN  /\ failed \subseteq PlatformPositions(apps)
                /\ updateFile' =
                       IF Len(missingApps) > 0
                       THEN MakeConfig(CachechkOf(appsFile), missingApps)
                       ELSE IF updateFile # Absent
                       THEN MakeConfig(CachechkOf(appsFile), <<>>)
                       ELSE Absent
                /\ lastRun' = [op |-> "missing", ran |-> TRUE,
                               totalPlatforms |-> Cardinality(PlatformPositions(apps)),
                               existed |-> updateFile # Absent,
                               allFound |-> missing = {},
                               examined |-> apps,
                               failed |-> failed,
                               pending |-> missingApps]
    /\ UNCHANGED <<downloads, metadataFile, uploadProgress, remote, dl>>
    /\ UNCHANGED diffVars
    /\ UNCHANGED runVars
    /\ UNCHANGED execVars

\* item.qpkg?.platform?.name || 'unknown'
ItemArchitecture(item) ==
    IF Lacks(item, "qpkg") THEN Unknown
    ELSE IF Lacks(item.qpkg, "platform") THEN Unknown
    ELSE item.qpkg.platform.name

\* main of the remote check (utils/file.ts, check-existing-files.ts): each item
\* of update-apps.json against the remote storage; failed are the items whose
\* lookup fails.
CheckRemoteFiles(failed) ==
    /\ pc = "idle"
    /\ IF updateFile = Absent
       THEN /\ lastRun' = [op |-> "remote", ran |-> FALSE]
            /\ UNCHANGED updateFile
       ELSE IF Len(updateFile.plugins.item) = 0
       THEN /\ lastRun' = [op |-> "remote", ran |-> FALSE]
            /\ UNCHANGED updateFile
       ELSE LET items == updateFile.plugins.item
                Exists(n) ==
                    checkFileExistsInCTFile(remote, n \notin failed, items[n].name,
                                            items[n].version, ItemArchitecture(items[n]))
                keep == {n \in 1..Len(items) : ~Exists(n)}
                itemsToKeep == PickFrom(items, keep, 1)
            IN  /\ failed \subseteq 1..Len(items)
                /\ updateFile' = IF Len(itemsToKeep) < Len(items)
                                 THEN MakeConfig(NoCachechk, itemsToKeep)
                                 ELSE updateFile
                /\ lastRun' = [op |-> "remote", ran |-> TRUE, existed |-> TRUE,
                               totalPlatforms |-> Len(items),
                               allFound |-> keep = {},
                               examined |-> items,
                               failed |-> failed,
                               pending |-> itemsToKeep]
    /\ UNCHANGED <<downloads, metadataFile, uploadProgress, remote, dl>>
    /\ UNCHANGED diffVars
    /\ UNCHANGED runVars
    /\ UNCHANGED execVars

\* --- the ground truth the reconcilers are exercised on ---
LedgerRecord(filename) == [filename |-> filename, signature |-> "sig"]

\* A record written for an earlier build of the file: the same filename, the
\* signature the catalog listed then.
StaleRecord(filename) == [filename |-> filename, signature |-> "old"]

Ledgers ==
    {NoLedger,
     [exists |-> TRUE, records |-> {}],
     [exists |-> TRUE, records |-> {StaleRecord(QpkgName(<<"A">>, V11, X86))}],
     [exists |-> TRUE, records |-> {LedgerRecord(QpkgName(<<"A">>, V11, X86))}],
     [exists |-> TRUE,
      records |-> {LedgerRecord(QpkgName(<<"A">>, V10, X86)),
                   LedgerRecord(QpkgName(<<"A">>, V11, X86)),
                   LedgerRecord(QpkgName(<<"A">>, V11, Arm)),
                   LedgerRecord(QpkgName(<<"B">>, V10, X86))}]}

FolderA(hasMonth, files) == [name |-> <<"A">>, hasMonth |-> hasMonth, files |-> files]

FolderBx(files) == [name |-> <<"B", "_", "x">>, hasMonth |-> TRUE, files |-> files]

Remotes ==
    {EmptyRemote,
     {FolderA(FALSE, {})},
     {FolderA(TRUE, {QpkgName(<<"A">>, V11, X86)})},
     {FolderA(TRUE, {QpkgName(<<"A">>, V10, X86), QpkgName(<<"A">>, V11, X86),
                     QpkgName(<<"A">>, V11, Arm)}),
      FolderBx({QpkgName(<<"B">>, V10, X86)})},
     {FolderA(TRUE, {QpkgName(<<"A">>, V11, Unknown)}),
      FolderBx({QpkgName(<<"B">>, V10, Unknown)})}}

\* update-apps.json as a fetch cycle can leave it.
PendingFiles ==
    {Absent} \cup
    {d \in {findDifferences(old, new) : old \in {Null} \cup SyncCatalogs,
                                        new \in SyncCatalogs} :
        Len(d.plugins.item) > 0}

ReconcileInit ==
    /\ appsFile \in SyncCatalogs
    /\ updateFile \in PendingFiles
    /\ newConfig = MakeConfig("c0", <<>>)
    /\ differences = NotRun
    /\ oldConfig = Null
    /\ configProgress \in Ledgers
    /\ downloads = {}
    /\ metadataFile = Absent
    /\ uploadProgress = NoLedger
    /\ remote \in Remotes
    /\ dl = NoDownload
    /\ lastRun = [op |-> "none"]
    /\ ExecIdle
    /\ RunIdle

ReconcileNext ==
    \/ CheckExistingFiles
    \/ \E failed \in SUBSET ((1..MaxApps) \X (1..MaxPlatforms)) : CheckMissingFiles(failed)
    \/ \E failed \in SUBSET (1..MaxApps) : CheckRemoteFiles(failed)

SpecReconcile == ReconcileInit /\ [][ReconcileNext]_vars

\* ------------------------------------------------------------------------
\* check-upload.ts, and the four checks on catalogs whose file names do not
\* follow the entry's version or the <product>_<version>_<arch>.qpkg shape
\* ------------------------------------------------------------------------

\* productNameMap of check-upload.ts; its other three names map to themselves.
productNameMap ==
    (<<"M", "U", "S", "L", "_", "C", "R", "O", "S", "S">> :>
         <<"M", "U", "S", "L", " ", "F", "r", "a", "m", "e", "w", "o", "r", "k">>)
    @@ (<<"A", "D", "G", "u", "a", "r", "d">> :>
         <<"A", "d", "G", "u", "a", "r", "d", " ", "H", "o", "m", "e", " ",
           "(", "P", "r", "e", "m", "i", "u", "m", ")">>)

\* productNameMap[baseName] || baseName
inferProductNameFromFilename(filename) ==
    LET baseName == StripQpkgSuffix(filename)
    IN  IF baseName \in DOMAIN productNameMap THEN productNameMap[baseName]
        ELSE baseName

\* main of check-upload.ts: every record of config/upload-progress.json against
\* the remote storage; failed are the filenames whose lookup fails.  The
\* try/catch around checkFileExistsInCTFile never catches: the function
\* catches every error itself and answers false.
CheckUpload(failed) ==
    /\ pc = "idle"
    /\ IF ~configProgress.exists
       THEN /\ lastRun' = [op |-> "checkUpload", ran |-> FALSE]
            /\ UNCHANGED configProgress
       ELSE IF configProgress.records = {}
       THEN /\ lastRun' = [op |-> "checkUpload", ran |-> FALSE]
            /\ UNCHANGED configProgress
       ELSE LET records == configProgress.records
                Exists(r) ==
                    LET parsed == parseQpkgFilename(r.filename)
                    IN  checkFileExistsInCTFile(remote, r.filename \notin failed,
                                                inferProductNameFromFilename(r.filename),
                                                parsed.version, parsed.arch)
                validProgress ==
                    {r \in records :
                        ~parseQpkgFilename(r.filename).matched \/ Exists(r)}
                totalMissing == Cardinality(records \ validProgress)
            IN  /\ failed \subseteq {r.filename : r \in records}
                /\ configProgress' =
                       IF totalMissing > 0
                       THEN [exists |-> TRUE, records |-> validProgress]
                       ELSE configProgress
                /\ lastRun' = [op |-> "checkUpload", ran |-> TRUE,
                               examined |-> records,
                               failed |-> failed,
                               valid |-> validProgress]
    /\ UNCHANGED <<appsFile, newConfig, differences, oldConfig>>
    /\ UNCHANGED <<updateFile, downloads, metadataFile, uploadProgress, remote, dl>>
    /\ UNCHANGED runVars
    /\ UNCHANGED execVars

\* The entries of a catalog, and of update-apps.json.
ItemsOf(file) == IF file = Absent THEN <<>> ELSE file.plugins.item

\* --- the catalogs and the ground truth the checks are exercised on ---

\* A file the vendor serves under a name of another shape.
RawName == <<"A", ".", "b", "i", "n">>

RawPlatform ==
    [platformID |-> Arm, location |-> CdnBase \o RawName, signature |-> "sig"]

\* Application A at version 1.1 whose file is still named after 1.0.
AppA11Old ==
    [name |-> <<"A">>, internalName |-> <<"a">>, version |-> V11,
     platform |-> <<SyncPlatform(<<"A">>, V10, X86)>>]

\* Application A at version 1.1 with one file of another shape.
AppA11Raw ==
    [name |-> <<"A">>, internalName |-> <<"a">>, version |-> V11,
     platform |-> <<SyncPlatform(<<"A">>, V11, X86), RawPlatform>>]

CheckCatalogs ==
    {MakeConfig("c2", <<AppA11>>),
     MakeConfig("c3", <<AppA11, AppB10>>),
     MakeConfig("c4", <<AppA11Old>>),
     MakeConfig("c5", <<AppA11Raw, AppB10>>)}

CheckLedgers ==
    {NoLedger,
     [exists |-> TRUE, records |-> {LedgerRecord(QpkgName(<<"A">>, V11, X86))}],
     [exists |-> TRUE, records |-> {LedgerRecord(QpkgName(<<"A">>, V10, X86))}],
     [exists |-> TRUE,
      records |-> {LedgerRecord(QpkgName(<<"A">>, V11, X86)),
                   LedgerRecord(QpkgName(<<"A">>, V11, Arm)),
                   LedgerRecord(QpkgName(<<"B">>, V10, X86))}],
     [exists |-> TRUE,
      records |-> {LedgerRecord(RawName),
                   LedgerRecord(QpkgName(RawName, V11, Unknown))}]}

CheckRemotes ==
    {EmptyRemote,
     {FolderA(FALSE, {})},
     {FolderA(TRUE, {QpkgName(<<"A">>, V11, X86), QpkgName(<<"A">>, V11, Arm)}),
      FolderBx({QpkgName(<<"B">>, V10, X86)})},
     {FolderA(TRUE, {QpkgName(<<"A">>, V10, X86)})},
     {FolderA(TRUE, {RawName, QpkgName(<<"A">>, V11, Unknown)})}}

\* config/apps.json after a first fetch, with update-apps.json as that fetch
\* wrote it (the whole catalog) or already removed.
ChecksInit ==
    /\ appsFile \in CheckCatalogs
    /\ updateFile \in {Absent, appsFile}
    /\ newConfig = appsFile
    /\ differences = NotRun
    /\ oldConfig = Null
    /\ configProgress \in CheckLedgers
    /\ downloads = {}
    /\ metadataFile = Absent
    /\ uploadProgress = NoLedger
    /\ remote \in CheckRemotes
    /\ dl = NoDownload
    /\ lastRun = [op |-> "none"]
    /\ ExecIdle
    /\ RunIdle

ChecksNext ==
    \/ CheckExistingFiles
    \/ \E failed \in SUBSET PlatformPositions(ItemsOf(appsFile)) :
           CheckMissingFiles(failed)
    \/ \E failed \in SUBSET (1..Len(ItemsOf(updateFile))) : CheckRemoteFiles(failed)
    \/ \E failed \in SUBSET {r.filename : r \in configProgress.records} :
           CheckUpload(failed)

SpecChecks == ChecksInit /\ [][ChecksNext]_vars

\* ------------------------------------------------------------------------
\* downloadAppByName, next to downloadUpdates
\* ------------------------------------------------------------------------

\* config.plugins.item.find(item => item.name === appName ||
\*                                  item.internalName === appName)
FindApp(items, appName) ==
    LET hits == {n \in 1..Len(items) :
                    items[n].name = appName \/ items[n].internalName = appName}
    IN  IF hits = {} THEN <<>>
        ELSE <<items[CHOOSE n \in hits : \A m \in hits : n <= m]>>

\* The loop over app.platform from position k on: downloadFile is called for
\* every platform, whatever is on disk.  The directory it leaves and, per
\* platform, what was on disk, whether a request went out, what was printed.
RECURSIVE ByNameLoop(_, _, _, _, _)
ByNameLoop(platforms, k, outcomes, dir, steps) ==
    IF k > Len(platforms) THEN [dir |-> dir, steps |-> steps]
    ELSE LET filename == getFilenameFromUrl(platforms[k].location)
             step == [filename |-> filename,
                      existed |-> FileExists(dir, filename),
                      requested |-> TRUE,
                      reported |-> IF outcomes[k] = "ok" THEN "success" ELSE "failed"]
             written == IF outcomes[k] = "failed" THEN dir
                        ELSE WriteFile(dir, filename, outcomes[k] = "ok")
         IN  ByNameLoop(platforms, k + 1, outcomes, written, steps \cup {step})

\* downloadAppByName(appName): it throws when apps.json is missing or lists
\* no app of that name.
DownloadAppByName(appName, outcomes) ==
    /\ pc = "idle"
    /\ IF appsFile = Absent
       THEN /\ lastRun' = [op |-> "byName", threw |-> TRUE, steps |-> {}]
            /\ UNCHANGED downloads
       ELSE IF FindApp(appsFile.plugins.item, appName) = <<>>
       THEN /\ lastRun' = [op |-> "byName", threw |-> TRUE, steps |-> {}]
            /\ UNCHANGED downloads
       ELSE LET app == FindApp(appsFile.plugins.item, appName)[1]
                done == ByNameLoop(app.platform, 1, outcomes, downloads, {})
            IN  /\ downloads' = done.dir
                /\ lastRun' = [op |-> "byName", threw |-> FALSE, steps |-> done.steps]
    /\ UNCHANGED <<updateFile, metadataFile, uploadProgress, remote, dl>>
    /\ UNCHANGED diffVars
    /\ UNCHANGED runVars
    /\ UNCHANGED execVars

AppNames == {<<"A">>, <<"a">>, <<"B", " ", "x">>, <<"Z">>}

EntryInit ==
    /\ appsFile \in {Absent} \cup SyncCatalogs
    /\ updateFile \in {Absent, MakeConfig("c2", <<AppA11>>)}
    /\ newConfig = MakeConfig("c0", <<>>)
    /\ differences = NotRun
    /\ oldConfig = Null
    /\ configProgress = NoLedger
    /\ downloads = {}
    /\ metadataFile = Absent
    /\ uploadProgress = NoLedger
    /\ remote = EmptyRemote
    /\ dl = NoDownload
    /\ lastRun = [op |-> "none"]
    /\ ExecIdle
    /\ RunIdle

EntryNext ==
    \/ \E appName \in AppNames, outcomes \in [1..MaxPlatforms -> DownloadOutcomes] :
          DownloadAppByName(appName, outcomes)
    \/ DownloadUpdatesEmpty
    \/ DownloadStart(1)
    \/ StrictAdmit
    \/ \E i \in 1..MaxTasks, outcome \in DownloadOutcomes : DownloadTaskSettle(i, outcome)
    \/ StrictResume
    \/ StrictAll
    \/ DownloadFinish
    \/ DownloadExit

SpecEntry == EntryInit /\ [][EntryNext]_vars

\* ------------------------------------------------------------------------
\* downloadFile: the request, the stream to disk and the retry loop
\* ------------------------------------------------------------------------

\* maxRetries = 3
DefaultMaxRetries == 3

\* setTimeout(resolve, 1000 * retries)
RetryDelayMs == 1000

\* What an attempt can throw: fetch rejecting, a response that is not ok, a
\* response without a body, the stream failing.
RequestErrors ==
    {"fetch failed", "HTTP 500: Internal Server Error", "Response body is null"}

StreamError == "stream error"

\* One more pass of the loop than maxRetries allows.
RetryAllowedOnceMore(retries, maxRetries) == retries <= maxRetries + 1

\* while (retries <= maxRetries), if (retries <= maxRetries)
RetryAllowed(retries, maxRetries) == retries <= maxRetries

\* lastError?.message || 'Unknown error'
ErrorText(lastError) ==
    IF lastError = "" THEN "Unknown error" ELSE lastError

\* The catch of the loop body: the error is kept, retries counted, and the
\* delay started when another pass is allowed.
DownloadFileCatch(error, file) ==
    LET retries == df.retries + 1
    IN  df' = [df EXCEPT !.lastError = error,
                         !.retries = retries,
                         !.file = file,
                         !.bytes = 0,
                         !.phase = IF RetryAllowed(retries, df.maxRetries)
                                   THEN "delay" ELSE "loop",
                         !.delays = IF RetryAllowed(retries, df.maxRetries)
                                    THEN Append(@, RetryDelayMs * retries) ELSE @]

\* The loop test: another request, or the failure result.
DownloadFileLoop ==
    /\ df.phase = "loop"
    /\ IF RetryAllowed(df.retries, df.maxRetries)
       THEN df' = [df EXCEPT !.phase = "fetch", !.requests = @ + 1]
       ELSE df' = [df EXCEPT !.phase = "returned",
                             !.result = [success |-> FALSE, fileSize |-> 0,
                                         verified |-> FALSE,
                                         error |-> ErrorText(df.lastError)]]
    /\ UNCHANGED <<ul, client>>
    /\ UNCHANGED execVars
    /\ UNCHANGED diffVars
    /\ UNCHANGED syncVars

\* fetch settles: it rejects, or answers not ok, or without a body, or with
\* a body, for which the writer is created and the stream read.
DownloadFileFetch(outcome) ==
    /\ df.phase = "fetch"
    /\ IF outcome = "body"
       THEN df' = [df EXCEPT !.phase = "stream", !.bytes = 0]
       ELSE DownloadFileCatch(outcome, df.file)
    /\ UNCHANGED <<ul, client>>
    /\ UNCHANGED execVars
    /\ UNCHANGED diffVars
    /\ UNCHANGED syncVars

\* reader.read() settles: a chunk is written, or the stream is done and the
\* writer flushed, or the read fails and the writer is closed on what it has.
DownloadFileRead(outcome) ==
    /\ df.phase = "stream"
    /\ CASE outcome = "chunk" ->
              /\ df.bytes < MaxChunks
              /\ df' = [df EXCEPT !.bytes = @ + 1, !.file = "partial"]
         [] outcome = "done" ->
              df' = [df EXCEPT !.phase = "verify", !.file = "complete"]
         [] OTHER ->
              DownloadFileCatch(StreamError,
                                IF df.bytes > 0 THEN "partial" ELSE df.file)
    /\ UNCHANGED <<ul, client>>
    /\ UNCHANGED execVars
    /\ UNCHANGED diffVars
    /\ UNCHANGED syncVars

\* verifySignature settles; a mismatch does not fail the download.
DownloadFileVerify(verified) ==
    /\ df.phase = "verify"
    /\ df' = [df EXCEPT !.phase = "returned",
                        !.result = [success |-> TRUE, fileSize |-> df.bytes,
                                    verified |-> verified, error |-> ""]]
    /\ UNCHANGED <<ul, client>>
    /\ UNCHANGED execVars
    /\ UNCHANGED diffVars
    /\ UNCHANGED syncVars

\* The timer of the delay fires.
DownloadFileDelay ==
    /\ df.phase = "delay"
    /\ df' = [df EXCEPT !.phase = "loop"]
    /\ UNCHANGED <<ul, client>>
    /\ UNCHANGED execVars
    /\ UNCHANGED diffVars
    /\ UNCHANGED syncVars

DownloadFileInit ==
    /\ \E maxRetries \in 0..MaxRetriesArg :
        df = [phase |-> "loop", maxRetries |-> maxRetries, retries |-> 0,
              lastError |-> "", requests |-> 0, delays |-> <<>>, bytes |-> 0,
              file |-> "none",
              result |-> [success |-> FALSE, fileSize |-> 0, verified |-> FALSE,
                          error |-> ""]]
    /\ ul = NoUpload
    /\ client = NoCall
    /\ DiffIdle
    /\ SyncIdle
    /\ ExecIdle

DownloadFileNext ==
    \/ DownloadFileLoop
    \/ \E outcome \in RequestErrors \cup {"body"} :
          DownloadFileFetch(outcome)
    \/ \E outcome \in {"chunk", "done", "error"} : DownloadFileRead(outcome)
    \/ \E verified \in BOOLEAN : DownloadFileVerify(verified)
    \/ DownloadFileDelay

\* Every pending request, read, verification and timer settles.
SpecDownloadFile ==
    DownloadFileInit /\ [][DownloadFileNext]_vars /\ WF_vars(DownloadFileNext)

\* ------------------------------------------------------------------------
\* download-apps.ts: downloadAllApps, next to the fetch cycle and
\* downloadUpdates
\* ------------------------------------------------------------------------

\* downloadAllApps up to its call of promiseWithConcurrency: the task list is
\* built from every app of config/apps.json.
DownloadAllStart(limit) ==
    /\ pc = "idle"
    /\ appsFile \notin {Absent, Unreadable}
    /\ LET apps == appsFile.plugins.item
           downloadTasks == BuildDownloadTasks(apps, {})
       IN  /\ dl' = [cachechk |-> CachechkOf(appsFile),
                     apps |-> apps,
                     tasks |-> downloadTasks,
                     appDownloadStatus |-> <<>>,
                     packagesMetadata |-> <<>>,
                     totalDownloaded |-> 0, totalSkipped |-> 0, totalFailed |-> 0,
                     found |-> {}, fetched |-> {}]
           /\ tasks' = Len(downloadTasks)
           /\ taskState' = [i \in 1..Len(downloadTasks) |-> "idle"]
           /\ results' = [i \in 1..Len(downloadTasks) |-> Hole]
           /\ pc' = IF Len(downloadTasks) = 0 THEN "all" ELSE "loop"
    /\ concurrency' = limit
    /\ executing' = <<>>
    /\ idx' = 1
    /\ awaited' = <<>>
    /\ winner' = 0
    /\ lastRun' = [op |-> "downloadAll", done |-> FALSE]
    /\ UNCHANGED <<updateFile, downloads, metadataFile, uploadProgress, remote>>
    /\ UNCHANGED diffVars
    /\ UNCHANGED runVars

\* downloadAllApps after the executor returned: metadata.json is written
\* from the entries of this run.
DownloadAllFinish ==
    /\ pc = "resolved"
    /\ lastRun.op = "downloadAll"
    /\ ~lastRun.done
    /\ metadataFile' = [entries |-> dl.packagesMetadata]
    /\ lastRun' = [op |-> "downloadAll", done |-> TRUE]
    /\ UNCHANGED <<updateFile, downloads, uploadProgress, remote, dl>>
    /\ UNCHANGED diffVars
    /\ UNCHANGED runVars
    /\ UNCHANGED execVars

MetadataNext ==
    \/ \E json \in SyncCatalogs : FetchCycle(json)
    \/ DownloadUpdatesEmpty
    \/ DownloadStart(1)
    \/ DownloadAllStart(1)
    \/ StrictAdmit
    \/ \E i \in 1..MaxTasks, outcome \in DownloadOutcomes : DownloadTaskSettle(i, outcome)
    \/ StrictResume
    \/ StrictAll
    \/ DownloadFinish
    \/ DownloadAllFinish
    \/ DownloadExit

SpecMetadata == SyncInit /\ [][MetadataNext]_vars

\* ------------------------------------------------------------------------
\* downloadUpdates with its calls of downloadFile, one download at a time
\* (DOWNLOAD_CONCURRENCY=1)
\* ------------------------------------------------------------------------

\* A test that takes a download for done only when it was verified.
ResultVerified(result) == result.success /\ result.verified

\* if (result.success)
ResultSuccess(result) == result.success

\* What the task makes of the result of downloadFile and the file it left.
OutcomeOf(result, file) ==
    IF ResultSuccess(result) THEN "ok"
    ELSE IF file = "partial" THEN "partial" ELSE "failed"

\* downloadFile({url, outputPath, signature, showProgress: true}) as the
\* task calls it, maxRetries left at its default.
DownloadFileCall(i) ==
    [phase |-> "loop", maxRetries |-> DefaultMaxRetries, retries |-> 0,
     lastError |-> "", requests |-> 0, delays |-> <<>>, bytes |-> 0,
     file |-> "none",
     result |-> [success |-> FALSE, fileSize |-> 0, verified |-> FALSE,
                 error |-> ""],
     task |-> i]

\* Task function i finds its file on disk and returns.
RunTaskSkip(i) ==
    /\ df.phase = "idle"
    /\ i \in 1..tasks
    /\ taskState[i] = "running"
    /\ FileExists(downloads, getFilenameFromUrl(dl.tasks[i].platform.location))
    /\ DownloadTaskSettleSync(i, "ok")
    /\ UNCHANGED runVars

\* Task function i does not find its file and calls downloadFile.
RunTaskCall(i) ==
    /\ lastRun.op = "download"
    /\ df.phase = "idle"
    /\ i \in 1..tasks
    /\ taskState[i] = "running"
    /\ ~FileExists(downloads, getFilenameFromUrl(dl.tasks[i].platform.location))
    /\ df' = DownloadFileCall(i)
    /\ UNCHANGED <<ul, client>>
    /\ UNCHANGED execVars
    /\ UNCHANGED diffVars
    /\ UNCHANGED syncVars

\* downloadFile has returned to task function i, which counts the result,
\* pushes the metadata of a success, and returns; df keeps the result.
RunTaskReturn(i) ==
    /\ df.phase = "returned"
    /\ df.task = i
    /\ DownloadTaskSettleSync(i, OutcomeOf(df.result, df.file))
    /\ df' = [phase |-> "idle", task |-> i, result |-> df.result]
    /\ UNCHANGED <<ul, client>>

DownloadRunInit ==
    /\ appsFile = MakeConfig("c2", <<AppA11>>)
    /\ updateFile \in {MakeConfig("c2", <<AppA11>>), MakeConfig("c3", <<AppA11, AppB10>>)}
    /\ newConfig = MakeConfig("c0", <<>>)
    /\ differences = NotRun
    /\ oldConfig = Null
    /\ configProgress = NoLedger
    /\ downloads \in {{}, WriteFile({}, QpkgName(<<"A">>, V11, X86), TRUE)}
    /\ metadataFile = Absent
    /\ uploadProgress = NoLedger
    /\ remote = EmptyRemote
    /\ dl = NoDownload
    /\ lastRun = [op |-> "none"]
    /\ ExecIdle
    /\ RunIdle

DownloadRunNext ==
    \/ DownloadStart(1)
    \/ StrictAdmit
    \/ \E i \in 1..MaxTasks : RunTaskSkip(i)
    \/ \E i \in 1..MaxTasks : RunTaskCall(i)
    \/ DownloadFileNext
    \/ \E i \in 1..MaxTasks : RunTaskReturn(i)
    \/ StrictResume
    \/ StrictAll
    \/ DownloadFinish
    \/ DownloadExit

SpecDownloadRun == DownloadRunInit /\ [][DownloadRunNext]_vars

\* ------------------------------------------------------------------------
\* upload.ts: main and uploadPackages
\* ------------------------------------------------------------------------

\* loadUploadProgress: {} when the file is missing or cannot be parsed.
loadUploadProgress(file) ==
    IF file = Unreadable THEN {}
    ELSE IF file.exists THEN file.records ELSE {}

\* uploadProgress[filename]: the record or nothing.
PreviousUpload(progress, filename) == {r \in progress : r.filename = filename}

\* A test of the filename alone.
AlreadyUploadedByName(progress, pkg) ==
    PreviousUpload(progress, pkg.filename) # {}

\* A size test that no file passes.
isLargeFileNever(pkg) == FALSE

\* parseInt(getEnvOrDefault('MAX_UPLOAD_FILE_SIZE', '1073741824'))
MaxUploadFileSize == 1073741824

\* pkg.fileSize > MAX_UPLOAD_FILE_SIZE
isLargeFile(pkg) == pkg.fileSize > MaxUploadFileSize

\* previousUpload && previousUpload.signature === pkg.signature
AlreadyUploaded(progress, pkg) ==
    \E previousUpload \in PreviousUpload(progress, pkg.filename) :
        previousUpload.signature = pkg.signature

\* uploadProgress[pkg.filename] = {signature: pkg.signature, ...}
SetRecord(progress, pkg) ==
    {r \in progress : r.filename # pkg.filename}
        \cup {[filename |-> pkg.filename, signature |-> pkg.signature]}

\* groupPackagesByProduct: the product names in the order of their first
\* package, and per product the positions of its packages.
RECURSIVE GroupNames(_, _, _)
GroupNames(packages, n, seen) ==
    IF n > Len(packages) THEN <<>>
    ELSE IF packages[n].productName \in seen
    THEN GroupNames(packages, n + 1, seen)
    ELSE <<packages[n].productName>>
             \o GroupNames(packages, n + 1, seen \cup {packages[n].productName})

RECURSIVE GroupMembers(_, _, _)
GroupMembers(packages, productName, n) ==
    IF n > Len(packages) THEN <<>>
    ELSE (IF packages[n].productName = productName THEN <<n>> ELSE <<>>)
             \o GroupMembers(packages, productName, n + 1)

groupPackagesByProduct(packages) ==
    LET names == GroupNames(packages, 1, {})
    IN  [g \in 1..Len(names) |-> GroupMembers(packages, names[g], 1)]

\* The error texts of the two transports.
PrimaryError == <<"E1">>

FallbackError == <<"E2">>

\* An error text that keeps the WebDAV error alone.
FallbackErrorOnly(uploadError, webdavError) == webdavError

\* `CTFile: ${uploadError}, WebDAV: ${webdavError.message}`
BothErrors(uploadError, webdavError) ==
    <<"CTFile: ">> \o uploadError \o <<", WebDAV: ">> \o webdavError

\* What getProductMonthlyFolder can throw: an error of a request, or
\* createFolder's 'exists elsewhere in account but not in parent'.
CollisionMessage == "exists elsewhere"

FolderOutcomes == {"ready", "E0", CollisionMessage}

\* `Folder setup failed: ${error.message}`
FolderSetupFailed(message) == <<"Folder setup failed: ", message>>

FolderError == FolderSetupFailed("E0")

CollisionError == FolderSetupFailed(CollisionMessage)

\* A package before uploadPackages has touched it.
PendingFile ==
    [state |-> "PENDING", step |-> "none", primaryCalls |-> 0, fallbackCalls |-> 0,
     uploadError |-> <<>>, uploadMethod |-> "none", hasUrl |-> FALSE,
     snapshot |-> {}, saved |-> "none"]

\* The package task i of the running batch works on.
PackageOf(i) == groupPackagesByProduct(ul.packages)[ul.g][i]

\* main up to the call of uploadPackages, and uploadPackages up to its loop
\* over the product groups: no file to upload returns; an oversized file
\* without a WebDAV client exits with code 1; otherwise the ledger is loaded.
UploadMain ==
    /\ ul.phase = "main"
    /\ LET largeFiles == {n \in 1..Len(ul.packages) : isLargeFile(ul.packages[n])}
       IN  IF Len(ul.packages) = 0
           THEN ul' = [ul EXCEPT !.phase = "exited", !.exitCode = 0]
           ELSE IF ~ul.webdavClient /\ largeFiles # {}
           THEN ul' = [ul EXCEPT !.phase = "exited", !.exitCode = 1]
           ELSE ul' = [ul EXCEPT !.phase = "group",
                                 !.loaded = loadUploadProgress(uploadProgress),
                                 !.uploadProgress = loadUploadProgress(uploadProgress),
                                 !.g = 1]
    /\ UNCHANGED <<df, client>>
    /\ UNCHANGED execVars
    /\ UNCHANGED diffVars
    /\ UNCHANGED syncVars

\* A catch block that marks no package.
WithoutUrlNone(productPackages) == {}

\* for (const pkg of productPackages) if (!pkg.ctfileUrl): the packages the
\* catch block of a failed folder setup marks and counts as failed.
WithoutUrl(productPackages) ==
    {n \in Range(productPackages) : ~ul.files[n].hasUrl}

\* The next product group: getProductMonthlyFolder, then the group's tasks
\* are handed to promiseWithConcurrency; when the folder setup throws, every
\* package of the group without a ctfileUrl is marked failed.
UploadFolder(outcome) ==
    /\ ul.phase = "group"
    /\ ul.g <= Len(groupPackagesByProduct(ul.packages))
    /\ LET productPackages == groupPackagesByProduct(ul.packages)[ul.g]
           marked == WithoutUrl(productPackages)
       IN  IF outcome = "ready"
           THEN /\ ul' = [ul EXCEPT !.phase = "batch", !.folders = @ + 1]
                /\ tasks' = Len(productPackages)
                /\ concurrency' = ul.concurrency
                /\ taskState' = [i \in 1..Len(productPackages) |-> "idle"]
                /\ results' = [i \in 1..Len(productPackages) |-> Hole]
                /\ executing' = <<>>
                /\ idx' = 1
                /\ pc' = "loop"
                /\ awaited' = <<>>
                /\ winner' = 0
           ELSE /\ ul' = [ul EXCEPT
                            !.phase = "group",
                            !.folders = @ + 1,
                            !.g = @ + 1,
                            !.failed = @ + Cardinality(marked),
                            !.totalProcessed = @ + Cardinality(marked),
                            !.files = [n \in 1..Len(ul.files) |->
                                          IF n \in marked
                                          THEN [ul.files[n] EXCEPT
                                                   !.state = "FAILED",
                                                   !.uploadError =
                                                       FolderSetupFailed(outcome)]
                                          ELSE ul.files[n]]]
                /\ UNCHANGED execVars
    /\ UNCHANGED <<df, client>>
    /\ UNCHANGED diffVars
    /\ UNCHANGED syncVars

\* One iteration of the executor's loop: the task is called and runs up to
\* its first await.  A package the ledger vouches for is skipped and the
\* task returns; a large file with a WebDAV client goes to WebDAV; any other
\* goes to CTFile.
UploadAdmit ==
    /\ ul.phase = "batch"
    /\ SafeAdmitExec
    /\ LET n == PackageOf(idx)
           pkg == ul.packages[n]
       IN  IF AlreadyUploaded(ul.uploadProgress, pkg)
           THEN ul' = [ul EXCEPT !.files[n].state = "SKIPPED",
                                 !.files[n].step = "returned",
                                 !.files[n].hasUrl = TRUE,
                                 !.skipped = @ + 1]
           ELSE IF isLargeFile(pkg) /\ ul.webdavClient
           THEN ul' = [ul EXCEPT !.files[n].state = "ATTEMPTING_FALLBACK",
                                 !.files[n].step = "direct",
                                 !.files[n].fallbackCalls = @ + 1]
           ELSE ul' = [ul EXCEPT !.files[n].state = "ATTEMPTING_PRIMARY",
                                 !.files[n].step = "primary",
                                 !.files[n].primaryCalls = @ + 1]
    /\ UNCHANGED <<df, client>>
    /\ UNCHANGED diffVars
    /\ UNCHANGED syncVars

\* The task of a skipped package has returned: its wrapper settles.
UploadSkipSettle(i) ==
    /\ ul.phase = "batch"
    /\ i \in 1..tasks
    /\ taskState[i] = "running"
    /\ ul.files[PackageOf(i)].step = "returned"
    /\ SafeSettleExec(i, TRUE)
    /\ ul' = [ul EXCEPT !.files[PackageOf(i)].step = "settled"]
    /\ UNCHANGED <<df, client>>
    /\ UNCHANGED diffVars
    /\ UNCHANGED syncVars

\* ctfileClient.uploadFile settles.  Success: the record is put in the
\* in-memory ledger and saveUploadProgress is called with it.  Failure: the
\* catch block; a large file is failed, any other file goes to WebDAV when
\* there is a client and is failed with the CTFile error when there is none.
UploadPrimarySettle(i, ok) ==
    /\ ul.phase = "batch"
    /\ i \in 1..tasks
    /\ taskState[i] = "running"
    /\ ul.files[PackageOf(i)].step = "primary"
    /\ LET n == PackageOf(i)
           pkg == ul.packages[n]
       IN  IF ok
           THEN /\ ul' = [ul EXCEPT
                            !.uploadProgress = SetRecord(@, pkg),
                            !.files[n].step = "saving",
                            !.files[n].hasUrl = TRUE,
                            !.files[n].uploadMethod = "ctfile",
                            !.files[n].snapshot = SetRecord(ul.uploadProgress, pkg)]
                /\ UNCHANGED execVars
           ELSE IF ~isLargeFile(pkg) /\ ul.webdavClient
           THEN /\ ul' = [ul EXCEPT !.files[n].state = "ATTEMPTING_FALLBACK",
                                    !.files[n].step = "fallback",
                                    !.files[n].fallbackCalls = @ + 1]
                /\ UNCHANGED execVars
           ELSE /\ ul' = [ul EXCEPT !.files[n].state = "FAILED",
                                    !.files[n].step = "settled",
                                    !.files[n].uploadError = PrimaryError,
                                    !.failed = @ + 1]
                /\ SafeSettleExec(i, TRUE)
    /\ UNCHANGED <<df, client>>
    /\ UNCHANGED diffVars
    /\ UNCHANGED syncVars

\* webdavClient.uploadFile settles, called for a large file or as the
\* fallback of a failed CTFile upload.
UploadFallbackSettle(i, ok) ==
    /\ ul.phase = "batch"
    /\ i \in 1..tasks
    /\ taskState[i] = "running"
    /\ ul.files[PackageOf(i)].step \in {"direct", "fallback"}
    /\ LET n == PackageOf(i)
           pkg == ul.packages[n]
       IN  IF ok
           THEN /\ ul' = [ul EXCEPT
                            !.uploadProgress = SetRecord(@, pkg),
                            !.files[n].step = "saving",
                            !.files[n].hasUrl = TRUE,
                            !.files[n].uploadMethod = "webdav",
                            !.files[n].snapshot = SetRecord(ul.uploadProgress, pkg)]
                /\ UNCHANGED execVars
           ELSE /\ ul' = [ul EXCEPT
                            !.files[n].state = "FAILED",
                            !.files[n].step = "settled",
                            !.files[n].uploadError =
                                IF ul.files[n].step = "direct"
                                THEN FallbackError
                                ELSE BothErrors(PrimaryError, FallbackError),
                            !.failed = @ + 1]
                /\ SafeSettleExec(i, TRUE)
    /\ UNCHANGED <<df, client>>
    /\ UNCHANGED diffVars
    /\ UNCHANGED syncVars

\* The Bun.write of saveUploadProgress settles: the document it was given
\* replaces the file, or the error is logged and swallowed.  Then the task
\* counts the file as completed and returns.
UploadSaveSettle(i, ok) ==
    /\ ul.phase = "batch"
    /\ i \in 1..tasks
    /\ taskState[i] = "running"
    /\ ul.files[PackageOf(i)].step = "saving"
    /\ LET n == PackageOf(i)
       IN  /\ uploadProgress' =
                IF ok THEN [exists |-> TRUE, records |-> ul.files[n].snapshot]
                ELSE uploadProgress
           /\ ul' = [ul EXCEPT !.files[n].state = "UPLOADED",
                               !.files[n].step = "settled",
                               !.files[n].saved = IF ok THEN "written" ELSE "lost",
                               !.completed = @ + 1]
    /\ SafeSettleExec(i, TRUE)
    /\ UNCHANGED <<updateFile, downloads, metadataFile, remote, dl, lastRun>>
    /\ UNCHANGED <<df, client>>
    /\ UNCHANGED diffVars

\* await Promise.race(executing) returns.
UploadResume ==
    /\ ul.phase = "batch"
    /\ SafeResume

\* await Promise.all(executing) returns.
UploadAll ==
    /\ ul.phase = "batch"
    /\ SafeAll

\* promiseWithConcurrency has returned: totalProcessed is advanced and the
\* loop goes to the next product group.
UploadBatchDone ==
    /\ ul.phase = "batch"
    /\ pc = "resolved"
    /\ ul' = [ul EXCEPT !.phase = "group",
                        !.totalProcessed = @ + tasks,
                        !.g = @ + 1]
    /\ tasks' = 0
    /\ concurrency' = 1
    /\ taskState' = <<>>
    /\ results' = <<>>
    /\ executing' = <<>>
    /\ idx' = 1
    /\ pc' = "idle"
    /\ awaited' = <<>>
    /\ winner' = 0
    /\ UNCHANGED <<df, client>>
    /\ UNCHANGED diffVars
    /\ UNCHANGED syncVars

\* The loop over the groups is over: uploadPackages returns and main runs to
\* its end.
UploadReturn ==
    /\ ul.phase = "group"
    /\ ul.g > Len(groupPackagesByProduct(ul.packages))
    /\ ul' = [ul EXCEPT !.phase = "exited", !.exitCode = 0]
    /\ UNCHANGED <<df, client>>
    /\ UNCHANGED execVars
    /\ UNCHANGED diffVars
    /\ UNCHANGED syncVars

\* --- the packages and ledgers upload.ts is exercised on ---
UploadPackage(product, file, version, arch, fileSize) ==
    [productName |-> product, filename |-> QpkgName(file, version, arch),
     signature |-> "sig", fileSize |-> fileSize]

PkgA86 == UploadPackage(<<"A">>, <<"A">>, V11, X86, 100)

PkgAArm == UploadPackage(<<"A">>, <<"A">>, V11, Arm, MaxUploadFileSize)

PkgBig == UploadPackage(<<"B", " ", "x">>, <<"B">>, V10, X86, MaxUploadFileSize + 1)

PackageLists ==
    {<<>>, <<PkgA86>>, <<PkgBig>>, <<PkgA86, PkgAArm>>, <<PkgA86, PkgBig>>,
     <<PkgBig, PkgA86, PkgAArm>>}

UploadLedgers ==
    {NoLedger,
     [exists |-> TRUE, records |-> {StaleRecord(PkgA86.filename)}],
     [exists |-> TRUE, records |-> {LedgerRecord(PkgA86.filename),
                                    StaleRecord(PkgBig.filename)}]}

UploadInit ==
    /\ uploadProgress \in UploadLedgers
    /\ \E packages \in PackageLists, webdavClient \in BOOLEAN,
          limit \in 1..MaxUploadLimit :
        ul = [phase |-> "main", packages |-> packages,
              webdavClient |-> webdavClient, concurrency |-> limit,
              loaded |-> {}, uploadProgress |-> {}, g |-> 0, folders |-> 0,
              files |-> [n \in 1..Len(packages) |-> PendingFile],
              completed |-> 0, failed |-> 0, skipped |-> 0, totalProcessed |-> 0,
              exitCode |-> -1]
    /\ df = NoDownloadFile
    /\ client = NoCall
    /\ updateFile = Absent
    /\ downloads = {}
    /\ metadataFile = Absent
    /\ remote = EmptyRemote
    /\ dl = NoDownload
    /\ lastRun = [op |-> "none"]
    /\ DiffIdle
    /\ ExecIdle

UploadNext ==
    \/ UploadMain
    \/ \E outcome \in FolderOutcomes : UploadFolder(outcome)
    \/ UploadAdmit
    \/ \E i \in 1..MaxTasks : UploadSkipSettle(i)
    \/ \E i \in 1..MaxTasks, ok \in BOOLEAN : UploadPrimarySettle(i, ok)
    \/ \E i \in 1..MaxTasks, ok \in BOOLEAN : UploadFallbackSettle(i, ok)
    \/ \E i \in 1..MaxTasks, ok \in BOOLEAN : UploadSaveSettle(i, ok)
    \/ UploadResume
    \/ UploadAll
    \/ UploadBatchDone
    \/ UploadReturn

SpecUpload == UploadInit /\ [][UploadNext]_vars

\* Every pending transfer, ledger write and executor step of the run settles.
SpecUploadFair == SpecUpload /\ WF_vars(UploadNext)

\* --- the run is terminated ---

\* The saveUploadProgress calls whose Bun.write has not settled.
WritesInFlight == {n \in 1..Len(ul.files) : ul.files[n].step = "saving"}

\* What upload-progress.json can hold once the process is gone: a write in
\* flight that never reached the file leaves it as it was, one that finished
\* leaves its document, and one that was cut short leaves a file that
\* loadUploadProgress cannot parse.
AfterTermination ==
    {uploadProgress}
        \cup {[exists |-> TRUE, records |-> ul.files[n].snapshot] : n \in WritesInFlight}
        \cup (IF WritesInFlight = {} THEN {} ELSE {Unreadable})

\* SIGTERM, SIGINT or SIGHUP (handleShutdown calls process.exit(0) without
\* waiting for anything), or a crash: nothing of the run executes any more.
UploadInterrupt ==
    /\ ul.phase \in {"main", "group", "batch"}
    /\ uploadProgress' \in AfterTermination
    /\ ul' = [ul EXCEPT !.phase = "interrupted", !.exitCode = 0]
    /\ UNCHANGED <<updateFile, downloads, metadataFile, remote, dl, lastRun>>
    /\ UNCHANGED <<df, client>>
    /\ UNCHANGED execVars
    /\ UNCHANGED diffVars

UploadInterruptNext ==
    \/ UploadNext
    \/ UploadInterrupt

SpecUploadInterrupt == UploadInit /\ [][UploadInterruptNext]_vars

\* ------------------------------------------------------------------------
\* The pipeline: fetch-xml, the reconcilers, download-updates and upload,
\* run one after the other, twice
\* ------------------------------------------------------------------------

\* matchFilesWithMetadata: one package per metadata entry whose file is in
\* downloads/, in the order of the entries.
matchFilesWithMetadata(dir, metadata) ==
    LET entries == IF metadata = Absent THEN <<>> ELSE metadata.entries
        present == SelectSeq(entries, LAMBDA meta : FileExists(dir, meta.filename))
    IN  [n \in 1..Len(present) |->
            [productName |-> present[n].productName,
             filename |-> present[n].filename,
             signature |-> present[n].signature,
             fileSize |-> PkgA86.fileSize]]

\* No script of the download side is running.
UploadNotRunning == ul.phase \in {"idle", "exited"}

\* fetch-xml: the first run gets the new catalog, the second run the same
\* catalog again.
PipelineFetch ==
    \/ /\ lastRun.op = "none"
       /\ \E json \in SyncCatalogs \ {appsFile} : FetchCycle(json)
    \/ /\ lastRun.op = "download"
       /\ lastRun.done
       /\ ul.phase = "exited"
       /\ oldConfig # newConfig
       /\ FetchCycle(appsFile)

\* The reconcilers, after the fetch: the pass against the ledger, then the
\* pass against the remote storage.
PipelineReconcile ==
    \/ /\ lastRun.op = "fetch"
       /\ CheckExistingFiles
    \/ /\ lastRun.op = "ledger"
       /\ \E failed \in SUBSET (1..MaxPlatforms) : CheckRemoteFiles(failed)

\* download-updates, after the reconcilers.
PipelineDownload ==
    /\ UploadNotRunning
    /\ \/ /\ lastRun.op = "remote"
          /\ (DownloadUpdatesEmpty \/ DownloadStart(1))
       \/ /\ lastRun.op = "download"
          /\ \/ StrictAdmit
             \/ \E i \in 1..MaxTasks, outcome \in DownloadOutcomes :
                   DownloadTaskSettle(i, outcome)
             \/ StrictResume
             \/ StrictAll
             \/ DownloadFinish
             \/ DownloadExit

\* upload.ts starts once download-updates has ended, in the first run of
\* the pipeline and in the second: main loads metadata.json and matches it
\* with the files in downloads/.
PipelineUploadStart ==
    /\ lastRun.op = "download"
    /\ lastRun.done
    /\ pc = "idle"
    /\ \/ ul.phase = "idle"
       \/ ul.phase = "exited" /\ oldConfig = newConfig
    /\ \E webdavClient \in BOOLEAN :
        LET packages == matchFilesWithMetadata(downloads, metadataFile)
        IN  ul' = [phase |-> "main", packages |-> packages,
                   webdavClient |-> webdavClient, concurrency |-> 1,
                   loaded |-> {}, uploadProgress |-> {}, g |-> 0, folders |-> 0,
                   files |-> [n \in 1..Len(packages) |-> PendingFile],
                   completed |-> 0, failed |-> 0, skipped |-> 0,
                   totalProcessed |-> 0, exitCode |-> -1]
    /\ UNCHANGED <<df, client>>
    /\ UNCHANGED execVars
    /\ UNCHANGED diffVars
    /\ UNCHANGED syncVars

PipelineInit ==
    /\ appsFile = MakeConfig("c1", <<AppA10>>)
    /\ updateFile = Absent
    /\ newConfig = MakeConfig("c0", <<>>)
    /\ differences = NotRun
    /\ oldConfig = Null
    /\ configProgress = NoLedger
    /\ downloads = {}
    /\ metadataFile = Absent
    /\ uploadProgress = NoLedger
    /\ remote = EmptyRemote
    /\ dl = NoDownload
    /\ lastRun = [op |-> "none"]
    /\ ExecIdle
    /\ RunIdle

PipelineNext ==
    \/ PipelineFetch
    \/ PipelineReconcile
    \/ PipelineDownload
    \/ PipelineUploadStart
    \/ UploadNext

SpecPipeline == PipelineInit /\ [][PipelineNext]_vars

\* ------------------------------------------------------------------------
\* ctfile.ts: CTFileClient.createFolder with request and listFolders
\* ------------------------------------------------------------------------

RootId == <<"0">>

\* normalizeParentId, and item.key?.replace(/^d/, ''): a leading 'd' removed
\* ('0' has none).
StripD(id) == IF id # <<>> /\ Head(id) = "d" THEN Tail(id) ELSE id

\* normalizeFolderId: the 'd' put in front, except for '0'.
normalizeFolderId(id) ==
    IF id = RootId THEN RootId
    ELSE IF id # <<>> /\ Head(id) = "d" THEN id
    ELSE <<"d">> \o id

\* The items the backend lists for a folder: those of the account it holds
\* under it.
ListedItems(account, parentId) ==
    {item \in account : item.parent = normalizeFolderId(parentId)}

\* listFolders: the items with icon 'folder', each with its key without 'd'
\* as id.
listFolders(account, parentId) ==
    {[id |-> StripD(item.key), name |-> item.name] :
        item \in {it \in ListedItems(account, parentId) : it.icon = "folder"}}

\* A createFolder that trusts the ID the create request reported.
createFolderTrusting(response, listing, folderName) ==
    [thrown |-> FALSE, folderId |-> response.folder_id]

\* createFolder after a create request answered 'already exists': the
\* folder of that name found in the listing of the parent gives the ID;
\* without one the call throws.  (find takes the first of the listing.)
createFolderExists(response, listing, folderName) ==
    LET found == {f \in listing : f.name = folderName}
    IN  IF found # {}
        THEN [thrown |-> FALSE, folderId |-> (CHOOSE f \in found : TRUE).id]
        ELSE [thrown |-> TRUE, message |-> CollisionMessage]

\* The create request settles: it throws, or the backend created the folder,
\* or it answers 'already exists' with the ID of a folder of that name
\* anywhere in the account.
CreateFolderRequest(answer) ==
    /\ client.phase = "create"
    /\ CASE answer.kind = "error" ->
              client' = [client EXCEPT
                           !.phase = "done",
                           !.result = [thrown |-> TRUE, message |-> "E0"]]
         [] answer.kind = "created" ->
              /\ \A item \in ListedItems(client.account, client.parentId) :
                     item.name # client.folderName
              /\ client' = [client EXCEPT
                              !.phase = "done",
                              !.response = [folder_exists |-> FALSE,
                                            folder_id |-> <<"9">>],
                              !.account = @ \cup
                                  {[key |-> <<"d", "9">>, name |-> client.folderName,
                                    icon |-> "folder",
                                    parent |-> normalizeFolderId(client.parentId)]},
                              !.result = [thrown |-> FALSE, folderId |-> <<"9">>]]
         [] OTHER ->
              /\ answer.id \in {StripD(item.key) :
                                   item \in {it \in client.account :
                                                /\ it.icon = "folder"
                                                /\ it.name = client.folderName}}
              /\ client' = [client EXCEPT
                              !.phase = "relist",
                              !.response = [folder_exists |-> TRUE,
                                            folder_id |-> answer.id]]
    /\ UNCHANGED <<df, ul>>
    /\ UNCHANGED execVars
    /\ UNCHANGED diffVars
    /\ UNCHANGED syncVars

\* The listing of the parent settles: it throws, or it is searched for the
\* folder.
CreateFolderRelist(ok) ==
    /\ client.phase = "relist"
    /\ IF ok
       THEN client' = [client EXCEPT
                          !.phase = "done",
                          !.listing = listFolders(client.account, client.parentId),
                          !.result = createFolderExists(
                                         client.response,
                                         listFolders(client.account, client.parentId),
                                         client.folderName)]
       ELSE client' = [client EXCEPT
                          !.phase = "done",
                          !.result = [thrown |-> TRUE, message |-> "E0"]]
    /\ UNCHANGED <<df, ul>>
    /\ UNCHANGED execVars
    /\ UNCHANGED diffVars
    /\ UNCHANGED syncVars

\* --- the accounts createFolder is exercised on ---
Month == <<"2", "0", "2", "6", "-", "1", "1">>

AccountItem(key, name, icon, parent) ==
    [key |-> key, name |-> name, icon |-> icon, parent |-> parent]

\* The root folder d1 with the product folders A (d2) and B (d3); the month
\* folder of A (d4), of B (d5), a file named like the month in B, and a
\* folder A outside the root.
AccountItems ==
    {AccountItem(<<"d", "2">>, <<"A">>, "folder", <<"d", "1">>),
     AccountItem(<<"d", "3">>, <<"B">>, "folder", <<"d", "1">>),
     AccountItem(<<"d", "4">>, Month, "folder", <<"d", "2">>),
     AccountItem(<<"d", "5">>, Month, "folder", <<"d", "3">>),
     AccountItem(<<"f", "6">>, Month, "file", <<"d", "3">>),
     AccountItem(<<"d", "7">>, <<"A">>, "folder", RootId)}

CreateFolderInit ==
    /\ \E account \in SUBSET AccountItems,
          folderName \in {<<"A">>, Month},
          parentId \in {<<"d", "1">>, <<"1">>, <<"2">>, <<"3">>} :
        client = [phase |-> "create", account |-> account,
                  folderName |-> folderName, parentId |-> parentId,
                  response |-> [folder_exists |-> FALSE, folder_id |-> <<>>],
                  listing |-> {},
                  result |-> [thrown |-> FALSE, folderId |-> <<>>]]
    /\ df = NoDownloadFile
    /\ ul = NoUpload
    /\ DiffIdle
    /\ SyncIdle
    /\ ExecIdle

\* What the backend can answer to a create request.
CreateAnswers ==
    {[kind |-> "error", id |-> <<>>], [kind |-> "created", id |-> <<"9">>]}
    \cup {[kind |-> "exists", id |-> StripD(item.key)] : item \in AccountItems}

CreateFolderNext ==
    \/ \E answer \in CreateAnswers : CreateFolderRequest(answer)
    \/ \E ok \in BOOLEAN : CreateFolderRelist(ok)

SpecCreateFolder == CreateFolderInit /\ [][CreateFolderNext]_vars

\* ------------------------------------------------------------------------
\* ctfile.ts and the WebDAV client: uploadFile and its retry loop, next to
\* downloadFile called with the same maxRetries
\* ------------------------------------------------------------------------

\* retryDelay: number = 5000
UploadRetryDelayMs == 5000

\* if (fileSize < 100)
MinCTFileSize == 100

\* What an attempt can throw: the upload URL request, the transfer, its
\* timeout, an answer without a file id.
UploadFileErrors ==
    {"Upload failed: 500", "Upload timeout after 60 minutes",
     "No file ID returned from upload"}

\* for (let attempt = 1; attempt <= this.maxRetries; attempt++)
AttemptAllowed(attempt, maxRetries) == attempt <= maxRetries

\* The call as uploadFile finds it: nothing attempted, no error kept.
UploadFileCall(kind, maxRetries, fileSize) ==
    [phase |-> "start", kind |-> kind, maxRetries |-> maxRetries,
     fileSize |-> fileSize, attempt |-> 1, lastError |-> "", attempts |-> 0,
     delays |-> <<>>, result |-> [kind |-> "none"]]

\* Before the loop: CTFile refuses a file under 100 bytes; the WebDAV
\* client creates the directory, and ensureDirectory keeps every failure
\* to itself.
UploadFileStart ==
    /\ client.phase = "start"
    /\ IF client.kind = "ctfile" /\ client.fileSize < MinCTFileSize
       THEN client' = [client EXCEPT
                !.phase = "done",
                !.result = [kind |-> "thrown", exhausted |-> FALSE,
                            error |-> "file too small"]]
       ELSE client' = [client EXCEPT !.phase = "loop"]
    /\ UNCHANGED <<df, ul>>
    /\ UNCHANGED execVars
    /\ UNCHANGED diffVars
    /\ UNCHANGED syncVars

\* The loop test: another attempt, after retryDelay * attempt when it is not
\* the first, or the error thrown after the loop.
UploadFileLoop ==
    /\ client.phase = "loop"
    /\ IF AttemptAllowed(client.attempt, client.maxRetries)
       THEN IF client.attempt > 1
            THEN client' = [client EXCEPT
                     !.phase = "sleep",
                     !.delays = Append(@, UploadRetryDelayMs * client.attempt)]
            ELSE client' = [client EXCEPT !.phase = "attempt",
                                          !.attempts = @ + 1]
       ELSE client' = [client EXCEPT
                !.phase = "done",
                !.result = [kind |-> "thrown", exhausted |-> TRUE,
                            error |-> ErrorText(client.lastError)]]
    /\ UNCHANGED <<df, ul>>
    /\ UNCHANGED execVars
    /\ UNCHANGED diffVars
    /\ UNCHANGED syncVars

\* The timer of this.sleep fires and the attempt starts.
UploadFileSleep ==
    /\ client.phase = "sleep"
    /\ client' = [client EXCEPT !.phase = "attempt", !.attempts = @ + 1]
    /\ UNCHANGED <<df, ul>>
    /\ UNCHANGED execVars
    /\ UNCHANGED diffVars
    /\ UNCHANGED syncVars

\* The attempt settles: the uploaded file is returned, or the catch keeps
\* the error and the loop counts on.
UploadFileAttempt(outcome) ==
    /\ client.phase = "attempt"
    /\ IF outcome = "ok"
       THEN client' = [client EXCEPT !.phase = "done",
                                     !.result = [kind |-> "returned"]]
       ELSE client' = [client EXCEPT !.phase = "loop",
                                     !.lastError = outcome,
                                     !.attempt = @ + 1]
    /\ UNCHANGED <<df, ul>>
    /\ UNCHANGED execVars
    /\ UNCHANGED diffVars
    /\ UNCHANGED syncVars

\* downloadFile and uploadFile of either client, called with one maxRetries.
RetryInit ==
    /\ \E maxRetries \in 0..MaxRetriesArg :
        /\ df = [phase |-> "loop", maxRetries |-> maxRetries, retries |-> 0,
                 lastError |-> "", requests |-> 0, delays |-> <<>>,
                 bytes |-> 0, file |-> "none",
                 result |-> [success |-> FALSE, fileSize |-> 0,
                             verified |-> FALSE, error |-> ""]]
        /\ \E kind \in {"ctfile", "webdav"} :
           \E fileSize \in {MinCTFileSize - 1, MinCTFileSize} :
              client = UploadFileCall(kind, maxRetries, fileSize)
    /\ ul = NoUpload
    /\ DiffIdle
    /\ SyncIdle
    /\ ExecIdle

UploadFileNext ==
    \/ UploadFileStart
    \/ UploadFileLoop
    \/ UploadFileSleep
    \/ \E outcome \in UploadFileErrors \cup {"ok"} : UploadFileAttempt(outcome)

RetryNext ==
    \/ DownloadFileNext
    \/ UploadFileNext

SpecRetry == RetryInit /\ [][RetryNext]_vars

\* ------------------------------------------------------------------------
\* parseQpkgFilename of ctfile-utils and its copy in check-existing-files.ts,
\* applied to one file name
\* ------------------------------------------------------------------------

\* The copy of the parser next to the second checkFileExistsInCTFile: the
\* same expression matched, the same two groups returned.
parseQpkgFilenameCopy(f) ==
    LET i == QpkgMatchStart(f)
        j == VersionRunEnd(f, i + 1)
    IN  IF i = 0 THEN [matched |-> FALSE]
        ELSE [matched |-> TRUE,
              version |-> SubSeq(f, i + 1, j - 1),
              arch |-> SubSeq(f, j + 1, Len(f) - 5)]

NotParsed == [parsed |-> FALSE]

\* checkFileExistsInCTFile of ctfile-utils parses the name of a listed file.
ParseQpkgUtils ==
    /\ client.phase = "parse"
    /\ client.utils = NotParsed
    /\ client' = [client EXCEPT !.utils = parseQpkgFilename(client.filename)]
    /\ UNCHANGED <<df, ul>>
    /\ UNCHANGED execVars
    /\ UNCHANGED diffVars
    /\ UNCHANGED syncVars

\* checkFileExistsInCTFile of check-existing-files.ts does so with the copy.
ParseQpkgCopy ==
    /\ client.phase = "parse"
    /\ client.copy = NotParsed
    /\ client' = [client EXCEPT !.copy = parseQpkgFilenameCopy(client.filename)]
    /\ UNCHANGED <<df, ul>>
    /\ UNCHANGED execVars
    /\ UNCHANGED diffVars
    /\ UNCHANGED syncVars

\* The longest name stem drawn character by character.
MaxStemLen == 6

StemChars == {"x", "1", "_", "."}

Stems == UNION {[1..n -> StemChars] : n \in 0..MaxStemLen}

Endings == {QpkgExt, QpkgExt \o <<"x">>, <<".", "x">>, <<>>}

ApacheName ==
    <<"A", "p", "a", "c", "h", "e", "8", "3", "_", "2", "4", "6", "5", ".",
      "8", "3", "2", "6", "0", "_", "x", "8", "6", "_", "6", "4">> \o QpkgExt

MuslName ==
    <<"M", "U", "S", "L", "_", "C", "R", "O", "S", "S", "_", "1", "1", ".",
      "1", ".", "5", "_", "a", "r", "m", "_", "6", "4">> \o QpkgExt

AdGuardName ==
    <<"A", "D", "G", "u", "a", "r", "d", "_", "0", ".", "1", "0", "7", ".",
      "2", "4", "_", "a", "r", "m", "-", "x", "4", "1">> \o QpkgExt

Filenames ==
    {stem \o ending : stem \in Stems, ending \in Endings}
    \cup {ApacheName, MuslName, AdGuardName}

ParseInit ==
    /\ \E filename \in Filenames :
          client = [phase |-> "parse", filename |-> filename,
                    utils |-> NotParsed, copy |-> NotParsed]
    /\ df = NoDownloadFile
    /\ ul = NoUpload
    /\ DiffIdle
    /\ SyncIdle
    /\ ExecIdle

ParseNext ==
    \/ ParseQpkgUtils
    \/ ParseQpkgCopy

SpecParse == ParseInit /\ [][ParseNext]_vars

\* ------------------------------------------------------------------------
\* upload.ts, then check-existing-files.ts on the update-apps.json the
\* uploaded files were listed in
\* ------------------------------------------------------------------------

\* The ledger pass, run once upload.ts has exited.
LedgerPassAfterUpload ==
    /\ ul.phase = "exited"
    /\ lastRun.op = "none"
    /\ CheckExistingFiles

\* update-apps.json lists the files of A and "B x"; downloads/ holds the
\* ledger upload.ts left, config/ holds none or one of an earlier upload.
LedgerInit ==
    /\ uploadProgress \in UploadLedgers
    /\ configProgress \in
          {NoLedger,
           [exists |-> TRUE, records |-> {LedgerRecord(PkgAArm.filename)}]}
    /\ updateFile = MakeConfig("c3", <<AppA11, AppB10>>)
    /\ \E packages \in PackageLists, webdavClient \in BOOLEAN,
          limit \in 1..MaxUploadLimit :
        ul = [phase |-> "main", packages |-> packages,
              webdavClient |-> webdavClient, concurrency |-> limit,
              loaded |-> {}, uploadProgress |-> {}, g |-> 0, folders |-> 0,
              files |-> [n \in 1..Len(packages) |-> PendingFile],
              completed |-> 0, failed |-> 0, skipped |-> 0, totalProcessed |-> 0,
              exitCode |-> -1]
    /\ df = NoDownloadFile
    /\ client = NoCall
    /\ downloads = {}
    /\ metadataFile = Absent
    /\ remote = EmptyRemote
    /\ dl = NoDownload
    /\ lastRun = [op |-> "none"]
    /\ appsFile = Absent
    /\ newConfig = MakeConfig("c0", <<>>)
    /\ differences = NotRun
    /\ oldConfig = Null
    /\ ExecIdle

LedgerNext ==
    \/ UploadNext
    \/ LedgerPassAfterUpload

SpecLedger == LedgerInit /\ [][LedgerNext]_vars

\* ========================================================================
\* Properties
\* ========================================================================

\* ---- Transfer executors ----

\* C1: at every instant of a run of promiseWithConcurrency the number of
\* tasks that have started and not yet settled is at most the limit.
C1_StrictCeiling == Cardinality(InFlight) <= concurrency

\* C2: when promiseWithConcurrency resolves, every task has settled and
\* results[i] holds the value of tasks[i] for every index i.
C2_StrictComplete ==
    pc = "resolved" =>
        \A i \in 1..tasks : Settled(i) /\ results[i] = TaskValue(i)

\* C3: during a run of promiseWithConcurrencySafe the number of in-flight
\* tasks never exceeds the limit, the executing pool holds exactly the
\* in-flight tasks, and as soon as a settlement frees a slot while tasks
\* remain, the executor is on its way to start the next one (it is in the
\* loop, or its pending race is already won).
C3_SafeCeiling ==
    /\ Cardinality(InFlight) <= concurrency
    /\ Range(executing) = InFlight
    /\ Len(executing) = Cardinality(InFlight)
    /\ (/\ pc \in {"loop", "race"}
        /\ idx + (IF pc = "race" THEN 1 ELSE 0) <= tasks
        /\ Cardinality(InFlight) < concurrency)
       => (pc = "loop" \/ winner # 0)

\* The pool is full, a task beyond the first batch waits for a slot, and an
\* earlier task has already settled.
C3_Witness ==
    /\ pc = "loop"
    /\ idx > concurrency
    /\ idx <= tasks
    /\ Cardinality(InFlight) = concurrency - 1
    /\ \E i \in 1..tasks : Settled(i)

\* C4: promiseWithConcurrencySafe never rejects; when it resolves every task
\* has settled, results[i] is undefined where tasks[i] rejected and the value
\* of tasks[i] where it fulfilled.
C4_SafeResilient ==
    /\ pc # "rejected"
    /\ pc = "resolved" =>
           \A i \in 1..tasks :
               /\ Settled(i)
               /\ results[i] = IF taskState[i] = "rejected" THEN Undefined
                               ELSE TaskValue(i)

\* The run resolved although a task rejected, with more tasks than the limit.
C4_Witness ==
    /\ pc = "resolved"
    /\ tasks > concurrency
    /\ \E i \in 1..tasks : taskState[i] = "rejected"
    /\ \E i \in 1..tasks : taskState[i] = "fulfilled"

\* C5 as stated: when promiseWithConcurrency rejects, no task is left
\* unstarted and none is still in flight (the queue was drained and the
\* rejection delivered only after every other task settled).
C5_DrainsBeforeRejecting ==
    pc = "rejected" => \A i \in 1..tasks : Settled(i)

\* C5 as the code has it: a rejection that settles the pending Promise.race,
\* or is among the promises of the final Promise.all, rejects the executor
\* at that step, and after that no further task is started.
C5_FailFast ==
    [][ /\ (/\ pc = "race"
            /\ winner # 0
            /\ taskState[winner] = "rejected"
            /\ pc' # pc) => pc' = "rejected"
        /\ (/\ pc = "all"
            /\ pc' # pc
            /\ \E k \in 1..Len(awaited) : taskState[awaited[k]] = "rejected")
           => pc' = "rejected"
        /\ pc = "rejected" => (pc' = "rejected" /\ Started' = Started) ]_vars

\* The executor has rejected while a task is unstarted and another in flight.
C5_Witness ==
    /\ pc = "rejected"
    /\ \E i \in 1..tasks : taskState[i] = "idle"
    /\ \E i \in 1..tasks : taskState[i] = "running"

\* ---- Catalog Differ ----

DiffDone == "plugins" \in DOMAIN differences

\* The previous catalog was read and has plugins.item.
Readable ==
    /\ ~IsNull(oldConfig)
    /\ ~Lacks(oldConfig, "plugins")
    /\ ~Lacks(oldConfig.plugins, "item")

PlatformPairs(app) ==
    {<<app.platform[n].platformID, app.platform[n].location>> :
        n \in 1..Len(app.platform)}

\* The rule of the specification for one entry of the current catalog.
ClaimedNewOrUpdated(newApp) ==
    LET same == {n \in 1..Len(oldConfig.plugins.item) :
                    AppKey(oldConfig.plugins.item[n]) = AppKey(newApp)}
    IN  \/ same = {}
        \/ \E n \in same :
               /\ \A m \in same : m <= n
               /\ \/ oldConfig.plugins.item[n].version # newApp.version
                  \/ ~(PlatformPairs(newApp) \subseteq
                          PlatformPairs(oldConfig.plugins.item[n]))

\* C6: an entry of the current catalog is in the diff if and only if its key
\* is absent from the previous catalog, or its version differs, or it has a
\* (platformID, location) pair the previous entry lacks; the diff keeps the
\* order of the current catalog.
C6_DiffRule ==
    (DiffDone /\ Readable) =>
        differences.plugins.item =
            SelectSeq(newConfig.plugins.item, ClaimedNewOrUpdated)

\* C7: the diff of a catalog against itself is empty.
C7_DiffIdempotent ==
    (DiffDone /\ oldConfig = newConfig) => differences.plugins.item = <<>>

\* A two-entry catalog with platforms was diffed against itself.
C7_Witness ==
    /\ DiffDone
    /\ oldConfig = newConfig
    /\ Len(newConfig.plugins.item) = 2
    /\ \A n \in 1..2 : Len(newConfig.plugins.item[n].platform) = MaxPlatforms

\* C8: when the previous catalog is null, unreadable or lacks plugins or
\* plugins.item, the diff is the whole current catalog.
C8_NoBaseline ==
    (DiffDone /\ ~Readable) => differences = newConfig

\* The differ ran on a two-entry catalog with an unreadable previous file,
\* and on one with a previous document that has no plugins.item.
C8_Witness ==
    /\ DiffDone
    /\ appsFile \in {Unreadable, NoItem}
    /\ Len(newConfig.plugins.item) = 2

\* ---- Pending-set file ----

\* C9: after a fetch cycle and after a downloadUpdates run, update-apps.json
\* exists exactly when the run left at least one entry pending, it then holds
\* those entries, and it is never left with an empty item list.
C9_PendingFilePersisted ==
    (\/ lastRun.op = "fetch"
     \/ lastRun.op = "download" /\ lastRun.done) =>
        /\ (updateFile = Absent) <=> (lastRun.pending = <<>>)
        /\ updateFile # Absent => updateFile.plugins.item = lastRun.pending

\* A download run that started from two pending entries has completed, one
\* entry was dropped and the other, whose download failed, was kept.
C9_Witness ==
    /\ lastRun.op = "download"
    /\ lastRun.done
    /\ Len(dl.apps) = 2
    /\ Len(lastRun.pending) = 1
    /\ updateFile # Absent

\* A pass examined the pending entries and found every platform in its
\* ground truth.
AllFound ==
    /\ lastRun.op \in {"ledger", "missing", "remote"}
    /\ lastRun.ran
    /\ lastRun.allFound

ExaminedPlatforms(apps) ==
    {[app |-> apps[pos[1]], platform |-> apps[pos[1]].platform[pos[2]]] :
        pos \in PlatformPositions(apps)}

\* The ledger's records filed under the filename of the platform.
RecordsFor(platform) ==
    {r \in configProgress.records : r.filename = getFilenameFromUrl(platform.location)}

\* The ledger holds a record for the platform's filename, and no record for it
\* carries the platform's signature.
OnlyStaleRecords(platform) ==
    /\ configProgress.exists
    /\ RecordsFor(platform) # {}
    /\ \A r \in RecordsFor(platform) : r.signature # platform.signature

StillPending(apps, e) ==
    \E n \in 1..Len(apps) :
        /\ AppKey(apps[n]) = AppKey(e.app)
        /\ \E k \in 1..Len(apps[n].platform) : apps[n].platform[k] = e.platform

\* C11: after the ledger pass, a platform whose only ledger records carry a
\* signature other than its own is still in the pending set: a record with a
\* different signature never drops the platform, matching filename or not.
C11_StaleRecordKeepsPlatform ==
    (lastRun.op = "ledger" /\ lastRun.ran) =>
        \A e \in ExaminedPlatforms(lastRun.examined) :
            OnlyStaleRecords(e.platform) => StillPending(lastRun.pending, e)


\* ---- Upload ----

\* The upload run has gone through uploadPackages and returned.
UploadDone == ul.phase = "exited" /\ ul.g > 0

UploadFiles == 1..Len(ul.files)

\* The ledger as loaded at the start of the run holds a record for the
\* filename of package n with the package's signature.
Vouched(n) ==
    \E r \in ul.loaded :
        /\ r.filename = ul.packages[n].filename
        /\ r.signature = ul.packages[n].signature

Transfers(n) == ul.files[n].primaryCalls + ul.files[n].fallbackCalls

\* The folder setup of the package's product failed.
FolderFailed(n) == ul.files[n].uploadError \in {FolderError, CollisionError}

\* C12 (as stated): when uploadPackages has returned, a file was skipped
\* without a transfer exactly when the ledger loaded at the start holds a
\* record for its filename with its signature.
C12_SkippedIffVouched ==
    UploadDone =>
        \A n \in UploadFiles :
            (ul.files[n].state = "SKIPPED" /\ Transfers(n) = 0) <=> Vouched(n)

\* C12 (amended): a skipped file is vouched for by the loaded ledger and had
\* no transfer; a vouched file never has a transfer, and is skipped unless
\* the folder setup of its product failed, which marks it failed; a file not
\* vouched for is never skipped, and once it is uploaded the run's ledger
\* holds exactly one record for its filename, with its signature.
C12_SkipRule ==
    \A n \in UploadFiles :
        /\ ul.files[n].state = "SKIPPED" => Vouched(n)
        /\ Vouched(n) => Transfers(n) = 0
        /\ (UploadDone /\ Vouched(n) /\ ~FolderFailed(n))
               => ul.files[n].state = "SKIPPED"
        /\ (UploadDone /\ ~Vouched(n) /\ ~FolderFailed(n)) => Transfers(n) > 0
        /\ ul.files[n].state = "UPLOADED" =>
               {r.signature : r \in PreviousUpload(ul.uploadProgress,
                                                    ul.packages[n].filename)}
                   = {ul.packages[n].signature}

\* One file was skipped on the ledger's word, and another, for which the
\* loaded ledger held a record with another signature, was uploaded.
C12_Witness ==
    /\ UploadDone
    /\ \E n, m \in UploadFiles :
          /\ ul.files[n].state = "SKIPPED"
          /\ ul.files[m].state = "UPLOADED"
          /\ PreviousUpload(ul.loaded, ul.packages[m].filename) # {}
          /\ ~Vouched(m)


\* ---- downloadFile ----

\* C13: downloadFile makes at most maxRetries + 1 requests, waits k * 1000 ms
\* before its k-th retry, always returns, and when every request has failed
\* returns success = false, verified = false and the text of the last error.
C13_Bounded ==
    /\ df.requests <= df.maxRetries + 1
    /\ Len(df.delays) <= df.maxRetries
    /\ Len(df.delays) >= df.requests - 1
    /\ \A k \in 1..Len(df.delays) : df.delays[k] = k * 1000
    /\ (df.phase = "returned" /\ ~df.result.success) =>
           /\ df.requests = df.maxRetries + 1
           /\ df.result.verified = FALSE
           /\ df.result.error = df.lastError
           /\ df.result.error \in RequestErrors \cup {StreamError}

C13_RetriesThenReturns == []C13_Bounded /\ <>(df.phase = "returned")

\* Every request of a call with the default maxRetries failed, the last one
\* while its body was streamed.
C13_Witness ==
    /\ df.phase = "returned"
    /\ df.maxRetries = DefaultMaxRetries
    /\ ~df.result.success
    /\ df.requests = 4
    /\ df.delays = <<1000, 2000, 3000>>
    /\ df.result.error = StreamError


\* ---- Files already on disk ----

\* C14: on every entry point, a file that is already at its destination is
\* not requested again and is reported as skipped.
C14_NoRequestForExisting ==
    /\ dl.found \cap dl.fetched = {}
    /\ (lastRun.op = "byName" /\ ~lastRun.threw) =>
           \A step \in lastRun.steps :
               step.existed => (~step.requested /\ step.reported = "skipped")


\* The files in downloads/ that a broken stream left short.
PartialFiles == {file.filename : file \in {f \in downloads : ~f.intact}}

MetadataFilenames ==
    IF metadataFile = Absent THEN {}
    ELSE {metadataFile.entries[n].filename : n \in 1..Len(metadataFile.entries)}

\* C15: a file whose download did not complete is fetched again by the
\* downloadUpdates run that meets it: it is never taken for a file already
\* downloaded, and never recorded in metadata.json (the two things that count
\* its app as complete).
C15_PartialFetchedAgain ==
    /\ PartialFiles \cap dl.found = {}
    /\ PartialFiles \cap MetadataFilenames = {}

\* The apps of the run that removeDownloadedApps took out of update-apps.json.
RemovedApps ==
    {n \in 1..Len(dl.apps) :
        \A m \in 1..Len(lastRun.pending) :
            AppKey(lastRun.pending[m]) # AppKey(dl.apps[n])}

\* Every platform file of the app was found on disk by the run, or was
\* fetched by it and written in full.
AllFilesOnDisk(app) ==
    \A k \in 1..Len(app.platform) :
        LET filename == getFilenameFromUrl(app.platform[k].location)
        IN  \/ filename \in dl.found
            \/ /\ filename \in dl.fetched
               /\ [filename |-> filename, intact |-> TRUE] \in downloads

\* C16: once a downloadUpdates run has removed apps from update-apps.json and
\* nothing of it is in flight any more, an app was removed exactly when every
\* platform file of it was downloaded or was already there; an app with a
\* failed platform is still pending.
C16_RemovedIffAllFiles ==
    (/\ lastRun.op = "download"
     /\ lastRun.done
     /\ dl # NoDownload
     /\ \A i \in 1..tasks : Settled(i)) =>
        \A n \in 1..Len(dl.apps) :
            (n \in RemovedApps) <=> AllFilesOnDisk(dl.apps[n])


\* ---- Upload state machine ----

\* The size of package n is over the threshold.
Oversized(n) == ul.packages[n].fileSize > MaxUploadFileSize

UploadTerminal == {"UPLOADED", "FAILED", "SKIPPED"}

\* The moves of the state machine as the claim draws it (a skip by the
\* ledger aside): primary first, unless the file is oversized and goes
\* straight to the fallback.
DrawnMove(n, from, to) ==
    \/ from = "PENDING" /\ to = "SKIPPED"
    \/ from = "PENDING" /\ to = "ATTEMPTING_PRIMARY" /\ ~Oversized(n)
    \/ from = "PENDING" /\ to = "ATTEMPTING_FALLBACK" /\ Oversized(n)
    \/ from = "ATTEMPTING_PRIMARY" /\ to \in {"UPLOADED", "ATTEMPTING_FALLBACK"}
    \/ from = "ATTEMPTING_FALLBACK" /\ to \in {"UPLOADED", "FAILED"}

\* The two moves the drawing leaves out: a failed folder setup fails the
\* pending files of the product, and a failed primary upload fails the file
\* when no fallback is configured.
ActualMove(n, from, to) ==
    \/ DrawnMove(n, from, to)
    \/ from = "PENDING" /\ to = "FAILED"
    \/ from = "ATTEMPTING_PRIMARY" /\ to = "FAILED" /\ ~ul.webdavClient

\* uploadPackages has returned with every file in a terminal state.
AllTerminal ==
    /\ UploadDone
    /\ \A n \in UploadFiles : ul.files[n].state \in UploadTerminal

\* A run that has files to upload and gets past the configuration check
\* ends, or no such run was started.
UploadRuns == ul.phase \notin {"main", "exited"}

\* C17 (as stated): every file moves along PENDING -> ATTEMPTING_PRIMARY ->
\* {UPLOADED | ATTEMPTING_FALLBACK} -> {UPLOADED | FAILED}, an oversized file
\* going from PENDING straight to ATTEMPTING_FALLBACK.
C17_DrawnMachine ==
    [][\A n \in UploadFiles :
          \/ ul'.files[n].state = ul.files[n].state
          \/ DrawnMove(n, ul.files[n].state, ul'.files[n].state)]_vars

\* C17 (amended): every move of a file is one of the drawn ones, or PENDING ->
\* FAILED, or ATTEMPTING_PRIMARY -> FAILED without a fallback; the primary
\* transport is never attempted for an oversized file; a terminal state is
\* never left; and every run that starts uploading ends with every file in
\* one terminal state.
C17_StateMachine ==
    /\ [][\A n \in UploadFiles :
             \/ ul'.files[n].state = ul.files[n].state
             \/ /\ ActualMove(n, ul.files[n].state, ul'.files[n].state)
                /\ ul.files[n].state \notin UploadTerminal]_vars
    /\ [](\A n \in UploadFiles : Oversized(n) => ul.files[n].primaryCalls = 0)
    /\ (UploadRuns ~> AllTerminal)

\* An oversized file was uploaded by the fallback without a primary attempt,
\* and a file under the threshold failed on both transports.
C17_Witness ==
    /\ AllTerminal
    /\ \E n, m \in UploadFiles :
          /\ Oversized(n)
          /\ ul.files[n].state = "UPLOADED"
          /\ ul.files[n].uploadMethod = "webdav"
          /\ ~Oversized(m)
          /\ ul.files[m].state = "FAILED"
          /\ ul.files[m].primaryCalls = 1
          /\ ul.files[m].fallbackCalls = 1


\* ---- Upload fallback ----

\* The primary upload of file n was attempted and failed.
PrimaryFailed(n) ==
    /\ ul.files[n].primaryCalls = 1
    /\ \/ ul.files[n].state \in {"ATTEMPTING_FALLBACK", "FAILED"}
       \/ ul.files[n].uploadMethod = "webdav"

\* The run's ledger holds the record of file n, and its write was issued.
Recorded(n) ==
    /\ [filename |-> ul.packages[n].filename,
        signature |-> ul.packages[n].signature] \in ul.uploadProgress
    /\ ul.files[n].saved # "none"

\* C18: for a file at or under the threshold whose primary upload failed,
\* one fallback call is made when a WebDAV client is configured and none when
\* it is not; a fallback that succeeds leaves the file UPLOADED and recorded,
\* one that fails leaves it FAILED with both errors in its error text, and
\* without a fallback it is FAILED with the primary error.
C18_Fallback ==
    \A n \in UploadFiles :
        /\ ul.files[n].primaryCalls <= 1
        /\ ul.files[n].fallbackCalls <= 1
        /\ (~Oversized(n) /\ ul.files[n].fallbackCalls = 1) => PrimaryFailed(n)
        /\ (~Oversized(n) /\ PrimaryFailed(n)) =>
               /\ ul.files[n].fallbackCalls = (IF ul.webdavClient THEN 1 ELSE 0)
               /\ ul.files[n].state = "UPLOADED" =>
                      (ul.files[n].uploadMethod = "webdav" /\ Recorded(n))
               /\ (ul.files[n].state = "FAILED" /\ ul.webdavClient) =>
                      {"E1", "E2"} \subseteq Range(ul.files[n].uploadError)
               /\ (ul.files[n].state = "FAILED" /\ ~ul.webdavClient) =>
                      ul.files[n].uploadError = <<"E1">>
               /\ ~ul.webdavClient => ul.files[n].state = "FAILED"

\* One file was uploaded by the fallback after its primary upload failed,
\* another failed on both transports.
C18_Witness ==
    \E n, m \in UploadFiles :
        /\ ~Oversized(n) /\ PrimaryFailed(n) /\ ul.files[n].state = "UPLOADED"
        /\ ~Oversized(m) /\ PrimaryFailed(m) /\ ul.files[m].state = "FAILED"
        /\ ul.files[m].fallbackCalls = 1


\* ---- Oversized files without a fallback ----

\* C19: when a file to upload is over the threshold and no WebDAV client is
\* configured, the run resolves no folder and starts no transfer, of small
\* files either, and it exits with a code other than zero.
C19_FatalUpFront ==
    ((\E n \in UploadFiles : Oversized(n)) /\ ~ul.webdavClient) =>
        /\ ul.phase \in {"main", "exited"}
        /\ ul.folders = 0
        /\ \A n \in UploadFiles : Transfers(n) = 0 /\ ul.files[n].state = "PENDING"
        /\ ul.phase = "exited" => ul.exitCode > 0

\* Such a run, with a small file next to the oversized one, has exited.
C19_Witness ==
    /\ ul.phase = "exited"
    /\ ul.exitCode = 1
    /\ ~ul.webdavClient
    /\ \E n, m \in UploadFiles : Oversized(n) /\ ~Oversized(m)

\* ---- Ledger write before completion ----

\* upload-progress.json holds the record of file n.
Persisted(n, ledger) ==
    /\ ledger.exists
    /\ [filename |-> ul.packages[n].filename,
        signature |-> ul.packages[n].signature] \in ledger.records

\* C20: at the step in which a file becomes UPLOADED, is counted and its task
\* settles, the ledger file holds the file's record: the write of the
\* document with that record has completed.
C20_PersistedBeforeCompleted ==
    [][\A n \in UploadFiles :
          (ul.files[n].state # "UPLOADED" /\ ul'.files[n].state = "UPLOADED")
              => Persisted(n, uploadProgress')]_vars

\* ---- Interruption of an upload run ----

\* The ledger file, as the next run will load it, has a record of filename.
LedgerHasFile(ledger, filename) ==
    /\ ledger # Unreadable
    /\ ledger.exists
    /\ \E r \in ledger.records : r.filename = filename

\* C21: when the upload run has been terminated, upload-progress.json still
\* has a record for every filename it had a record for when the run loaded
\* it, and the record of every file whose ledger write had completed; only
\* files in flight at the termination can be missing.
C21_InterruptionKeepsRecords ==
    ul.phase = "interrupted" =>
        /\ \A r \in ul.loaded : LedgerHasFile(uploadProgress, r.filename)
        /\ \A n \in UploadFiles :
               ul.files[n].saved = "written"
                   => LedgerHasFile(uploadProgress, ul.packages[n].filename)

\* ---- Upload accounting ----

FilesIn(state) == {n \in UploadFiles : ul.files[n].state = state}

\* The product names of the run's packages.
ProductNames == {ul.packages[n].productName : n \in UploadFiles}

C23_ExitCodePolicy ==
    (ul.phase = "exited" /\ Len(ul.packages) > 0) =>
        /\ (UploadDone /\ ul.failed = Len(ul.packages)) => ul.exitCode # 0
        /\ (UploadDone /\ ul.failed \in 1..(Len(ul.packages) - 1)) => ul.exitCode = 0

\* ---- A download whose digest does not match ----

\* downloadFile is about to hand a success with verified = false to task i.
UnverifiedReturn(i) ==
    /\ df.phase = "returned"
    /\ df.task = i
    /\ df.result.success
    /\ ~df.result.verified

\* C24: whatever verifySignature answers, downloadFile returns success =
\* true once the stream has completed; and the task that gets success = true
\* with verified = false counts the file as downloaded, pushes its metadata
\* entry and leaves the status of its app alone, as for a verified file; the
\* entries pushed are in metadata.json when the run has written it.
C24_MismatchNotFatal ==
    /\ [][(df.phase = "verify" /\ df'.phase = "returned")
              => (df'.result.success /\ df'.result.error = "")]_vars
    /\ [][\A i \in 1..MaxTasks :
             (UnverifiedReturn(i) /\ df'.phase = "idle") =>
                 /\ dl'.totalDownloaded = dl.totalDownloaded + 1
                 /\ dl'.totalFailed = dl.totalFailed
                 /\ dl'.totalSkipped = dl.totalSkipped
                 /\ dl'.appDownloadStatus = dl.appDownloadStatus
                 /\ dl'.packagesMetadata =
                        Append(dl.packagesMetadata, MetadataOf(dl.tasks[i]))
                 /\ [filename |-> getFilenameFromUrl(dl.tasks[i].platform.location),
                     intact |-> TRUE] \in downloads']_vars
    /\ [][(lastRun.op = "download" /\ lastRun'.op = "download"
              /\ ~lastRun.done /\ lastRun'.done /\ metadataFile' # Absent)
             => \A k \in 1..Len(dl.packagesMetadata) :
                    \E j \in 1..Len(metadataFile'.entries) :
                        metadataFile'.entries[j] = dl.packagesMetadata[k]]_vars

\* A run has written metadata.json; its last download came back with
\* verified = false, was counted as downloaded, and has its entry in the file.
C24_Witness ==
    /\ lastRun.op = "download"
    /\ lastRun.done
    /\ df.phase = "idle"
    /\ "result" \in DOMAIN df
    /\ df.result.success
    /\ ~df.result.verified
    /\ dl.totalDownloaded > 0
    /\ metadataFile # Absent
    /\ \E j \in 1..Len(metadataFile.entries) :
          metadataFile.entries[j] = MetadataOf(dl.tasks[df.task])

\* ---- metadata.json ----

\* The filenames of the entries of a metadata.json.
FilenamesOf(file) ==
    IF file = Absent THEN {}
    ELSE {file.entries[j].filename : j \in 1..Len(file.entries)}

\* The entries of a metadata.json under a filename.
EntriesOf(file, filename) ==
    IF file = Absent THEN {}
    ELSE {j \in 1..Len(file.entries) : file.entries[j].filename = filename}

\* C25: metadata.json never holds two entries of one filename, and a download
\* run that writes it keeps an entry for every filename that had one and was
\* not processed by the run.
C25_KeyedByFilename ==
    /\ [](\A f \in FilenamesOf(metadataFile) :
             Cardinality(EntriesOf(metadataFile, f)) = 1)
    /\ [][metadataFile' # metadataFile =>
             \A f \in FilenamesOf(metadataFile) :
                 f \notin TaskFiles(dl.tasks) => f \in FilenamesOf(metadataFile')]_vars

\* ---- The pipeline, run twice ----

\* The second run of the pipeline has fetched the catalog: the same as the
\* one on disk.
SecondRun == oldConfig = newConfig

\* Every file of the catalog on disk is in downloads/ and has its record in
\* the upload ledger.
CycleSucceeded ==
    \A n \in 1..Len(ItemsOf(appsFile)) :
        \A k \in 1..Len(ItemsOf(appsFile)[n].platform) :
            LET filename ==
                    getFilenameFromUrl(ItemsOf(appsFile)[n].platform[k].location)
            IN  /\ [filename |-> filename, intact |-> TRUE] \in downloads
                /\ uploadProgress.exists
                /\ LedgerRecord(filename) \in uploadProgress.records

\* C26: the first fetch puts every entry whose version was bumped into
\* update-apps.json; the reconcilers, run against an empty ledger and an
\* empty remote folder, leave update-apps.json as it is; and once the
\* pipeline is run again on the same catalog after a cycle that downloaded
\* and uploaded every file, update-apps.json does not exist and no entry is
\* pending.
C26_Convergence ==
    /\ [][(lastRun.op = "none" /\ lastRun'.op = "fetch") =>
             \A n \in 1..Len(ItemsOf(appsFile')) :
                 (\E m \in 1..Len(ItemsOf(appsFile)) :
                      /\ AppKey(ItemsOf(appsFile)[m]) = AppKey(ItemsOf(appsFile')[n])
                      /\ ItemsOf(appsFile)[m].version # ItemsOf(appsFile')[n].version)
                     => \E j \in 1..Len(ItemsOf(updateFile')) :
                            ItemsOf(updateFile')[j] = ItemsOf(appsFile')[n]]_vars
    /\ [][(lastRun'.op \in {"ledger", "remote"} /\ lastRun' # lastRun
              /\ configProgress = NoLedger /\ remote = EmptyRemote)
             => updateFile' = updateFile]_vars
    /\ []((SecondRun /\ CycleSucceeded) =>
             /\ updateFile = Absent
             /\ "pending" \in DOMAIN lastRun => lastRun.pending = <<>>)

\* The second run of the pipeline has gone through download-updates after a
\* cycle that downloaded and uploaded the two files of the bumped entry.
C26_Witness ==
    /\ SecondRun
    /\ CycleSucceeded
    /\ Len(ItemsOf(appsFile)) > 0
    /\ lastRun.op = "download"
    /\ lastRun.done
    /\ updateFile = Absent

\* ---- Overlapping ledger writes ----

\* Every ledger write of the run went through.
AllWritesLanded ==
    \A n \in FilesIn("UPLOADED") : ul.files[n].saved = "written"

\* C27: with two or more uploads at a time, once uploadPackages has returned
\* and none of its ledger writes failed, upload-progress.json holds the
\* record of every file the run uploaded, in whatever order the writes of
\* tasks that finished together completed.
C27_NoLostUpdates ==
    (UploadDone /\ ul.concurrency >= 2 /\ AllWritesLanded) =>
        \A n \in FilesIn("UPLOADED") : Persisted(n, uploadProgress)

\* ---- After the batch of downloadUpdates ----

\* The step in which downloadUpdates, back from promiseWithConcurrency,
\* evaluates the apps and writes metadata.json and update-apps.json.
PostBatchStep ==
    /\ lastRun.op = "download"
    /\ ~lastRun.done
    /\ lastRun'.op = "download"
    /\ lastRun'.done

\* C28: downloadUpdates evaluates the apps, writes metadata.json and removes
\* apps from update-apps.json only when every download task has settled: at
\* that step downloaded + skipped + failed is the number of tasks, and every
\* file the run downloaded gets its entry in metadata.json.
C28_PostBatchAfterAllTasks ==
    [][PostBatchStep =>
          /\ \A i \in 1..tasks : Settled(i)
          /\ dl.totalDownloaded + dl.totalSkipped + dl.totalFailed = tasks
          /\ \A i \in 1..tasks :
                 [filename |-> getFilenameFromUrl(dl.tasks[i].platform.location),
                  intact |-> TRUE] \in downloads
                     => \E j \in 1..Len(metadataFile'.entries) :
                            metadataFile'.entries[j] = MetadataOf(dl.tasks[i])]_vars

\* ---- Entries leaving update-apps.json ----

PendingKeys(file) == {AppKey(ItemsOf(file)[n]) : n \in 1..Len(ItemsOf(file))}

\* Every platform of the entry has its file in downloads/, in full.
AllPlatformsDownloaded(app, dir) ==
    \A k \in 1..Len(app.platform) :
        [filename |-> getFilenameFromUrl(app.platform[k].location),
         intact |-> TRUE] \in dir

\* C29: over fetch cycles and download runs (the upload ledger and the remote
\* folder being empty), an app that has an entry in update-apps.json keeps
\* one until every platform of the entry has been downloaded in full; a
\* fetch cycle in particular removes no entry whose download failed or never
\* ran.
C29_LeavesOnlyOnCompletion ==
    [][\A n \in 1..Len(ItemsOf(updateFile)) :
          AppKey(ItemsOf(updateFile)[n]) \notin PendingKeys(updateFile')
              => AllPlatformsDownloaded(ItemsOf(updateFile)[n], downloads')]_vars

\* ---- metadata.json during the batch ----

\* Task i returns in this step after downloadFile succeeded.
DownloadSucceeds(i) ==
    /\ i \in 1..tasks
    /\ taskState[i] = "running"
    /\ taskState'[i] = "fulfilled"
    /\ dl'.totalDownloaded = dl.totalDownloaded + 1

\* C30: in downloadUpdates and downloadAllApps, when the task of a download
\* that succeeded returns, metadata.json holds the entry of its file, so
\* that a crash later in the batch finds it on disk.
C30_EntryWrittenOnSuccess ==
    [][\A i \in 1..MaxTasks :
          DownloadSucceeds(i) =>
              getFilenameFromUrl(dl.tasks[i].platform.location)
                  \in FilenamesOf(metadataFile')]_vars


\* ---- The ledger pass, platform by platform ----

\* The key a filename yields: product, version and architecture as parsed
\* from it; nothing when the name is not <product>_<version>_<arch>.qpkg.
FilenameKeys(filename) ==
    LET parsed == parseQpkgFilename(filename)
    IN  IF parsed.matched
        THEN {<<StripQpkgSuffix(filename), parsed.version, parsed.arch>>}
        ELSE {}

\* The ledger the checks read has a record whose filename yields the key of
\* the platform's URL filename.
RecordWithKeyOf(platform) ==
    /\ configProgress.exists
    /\ \E r \in configProgress.records :
           FilenameKeys(r.filename) \cap
               FilenameKeys(getFilenameFromUrl(platform.location)) # {}

\* s is t with some of its elements left out.
RECURSIVE IsSubSeq(_, _)
IsSubSeq(s, t) ==
    IF s = <<>> THEN TRUE
    ELSE IF t = <<>> THEN FALSE
    ELSE IF Head(s) = Head(t) THEN IsSubSeq(Tail(s), Tail(t))
    ELSE IsSubSeq(s, Tail(t))

\* The entries of after are entries of before, in their order, each with its
\* fields as before and its platforms a part of what it had.
RECURSIVE NarrowedFrom(_, _)
NarrowedFrom(after, before) ==
    IF after = <<>> THEN TRUE
    ELSE IF before = <<>> THEN FALSE
    ELSE IF /\ [Head(after) EXCEPT !.platform = Head(before).platform] = Head(before)
            /\ Head(after).platform # <<>>
            /\ IsSubSeq(Head(after).platform, Head(before).platform)
         THEN NarrowedFrom(Tail(after), Tail(before))
         ELSE NarrowedFrom(after, Tail(before))

\* C31: after the ledger pass a platform is gone from the pending set exactly
\* when the ledger has a record whose filename yields the key (product from
\* the filename, version, architecture) that the platform's URL filename
\* yields; an entry is gone exactly when all its platforms are; nothing is
\* added, and the entries kept have their fields and their order.
C31_LedgerRule ==
    (lastRun.op = "ledger" /\ lastRun.ran) =>
        /\ \A e \in ExaminedPlatforms(lastRun.examined) :
               ~StillPending(lastRun.pending, e) <=> RecordWithKeyOf(e.platform)
        /\ NarrowedFrom(lastRun.pending, lastRun.examined)
        /\ ItemsOf(updateFile) = lastRun.pending


\* ---- File names of another shape ----

\* The platform's URL filename is not <product>_<version>_<arch>.qpkg.
Unparseable(platform) ==
    ~parseQpkgFilename(getFilenameFromUrl(platform.location)).matched

\* C32: after each of the three passes (against the ledger, against the
\* remote storage, and the missing-files pass over the catalog) every
\* platform the pass examined whose URL filename does not parse is in the
\* pending set, whatever the ledger and the remote storage hold.
C32_UnparseableStaysPending ==
    (lastRun.op \in {"ledger", "remote", "missing"} /\ lastRun.ran) =>
        \A e \in ExaminedPlatforms(lastRun.examined) :
            Unparseable(e.platform) => StillPending(lastRun.pending, e)


\* ---- The remote pass, platform by platform ----

\* The month's folder of the app's product folder exists and lists a file
\* whose name parses to the version and architecture of the platform's file.
ListedRemotely(app, platform) ==
    LET own == parseQpkgFilename(getFilenameFromUrl(platform.location))
    IN  /\ own.matched
        /\ \E f \in remote :
               /\ f.name = getProductFolderName(app.name)
               /\ f.hasMonth
               /\ \E filename \in f.files :
                      LET listed == parseQpkgFilename(filename)
                      IN  /\ listed.matched
                          /\ listed.version = own.version
                          /\ listed.arch = own.arch

\* C33: after a remote pass whose lookups all succeeded, a platform is gone
\* from the pending set exactly when its file is listed in this month's
\* folder of its product; without the product folder or the month folder it
\* stays; and the entries kept are the examined ones narrowed platform by
\* platform (an entry goes only when all of its platforms went).
C33_RemoteRule ==
    (lastRun.op = "remote" /\ lastRun.ran /\ lastRun.failed = {}) =>
        /\ \A e \in ExaminedPlatforms(lastRun.examined) :
               ~StillPending(lastRun.pending, e) <=> ListedRemotely(e.app, e.platform)
        /\ NarrowedFrom(lastRun.pending, lastRun.examined)


\* ---- Lookups that fail ----

\* The platform at a position of the examined entries, with its entry.
ExaminedAt(apps, n, k) == [app |-> apps[n], platform |-> apps[n].platform[k]]

\* C34: a missing-files pass or remote pass in which lookups fail still runs
\* to its end and writes its result; every platform whose lookup failed
\* (every platform of an entry whose lookup failed, in the remote pass) is in
\* the pending set; and the platforms looked up without failure are still
\* decided: one whose file is listed remotely is dropped by the missing-files
\* pass.
C34_FailedLookupStaysPending ==
    /\ (lastRun.op = "missing" /\ lastRun.ran) =>
           /\ \A pos \in lastRun.failed :
                  StillPending(lastRun.pending,
                               ExaminedAt(lastRun.examined, pos[1], pos[2]))
           /\ \A pos \in PlatformPositions(lastRun.examined) \ lastRun.failed :
                  LET e == ExaminedAt(lastRun.examined, pos[1], pos[2])
                  IN  ListedRemotely(e.app, e.platform)
                          => ~StillPending(lastRun.pending, e)
           /\ ItemsOf(updateFile) = lastRun.pending
    /\ (lastRun.op = "remote" /\ lastRun.ran) =>
           /\ \A n \in lastRun.failed :
                  \A k \in 1..Len(lastRun.examined[n].platform) :
                      StillPending(lastRun.pending, ExaminedAt(lastRun.examined, n, k))
           /\ ItemsOf(updateFile) = lastRun.pending

\* A missing-files pass in which the lookup of a platform whose file is
\* listed remotely failed, while another platform was looked up and dropped.
C34_Witness ==
    /\ lastRun.op = "missing"
    /\ lastRun.ran
    /\ \E pos \in lastRun.failed :
           LET e == ExaminedAt(lastRun.examined, pos[1], pos[2])
           IN  ListedRemotely(e.app, e.platform)
    /\ \E pos \in PlatformPositions(lastRun.examined) \ lastRun.failed :
           ~StillPending(lastRun.pending, ExaminedAt(lastRun.examined, pos[1], pos[2]))


\* ---- check-upload and lookups that fail ----

\* This month's folder of the product check-upload infers for the record
\* lists a file with the version and architecture of the record's filename.
RecordListed(record) ==
    LET own == parseQpkgFilename(record.filename)
    IN  /\ own.matched
        /\ \E f \in remote :
               /\ f.name = getProductFolderName(inferProductNameFromFilename(record.filename))
               /\ f.hasMonth
               /\ \E filename \in f.files :
                      LET listed == parseQpkgFilename(filename)
                      IN  /\ listed.matched
                          /\ listed.version = own.version
                          /\ listed.arch = own.arch

\* C35: after check-upload, a record that is gone from the ledger is one whose
\* lookup did not fail and whose file the remote listing does not hold; a
\* record whose lookup failed is still in the ledger.
C35_RecordKeptOnError ==
    (lastRun.op = "checkUpload" /\ lastRun.ran) =>
        \A record \in lastRun.examined :
            record \notin configProgress.records =>
                /\ record.filename \notin lastRun.failed
                /\ ~RecordListed(record)


\* ---- createFolder and 'already exists' ----

\* The folders of the account that have the name asked for and lie in the
\* parent asked for.
ChildrenNamed ==
    {item \in client.account :
        /\ item.icon = "folder"
        /\ item.name = client.folderName
        /\ StripD(item.parent) = StripD(client.parentId)}

\* C36: a createFolder call whose create request was answered 'already
\* exists' returns an ID only when the parent holds a folder of that name,
\* and then the ID of such a folder as the listing gives it, whatever ID the
\* create response carried; when the parent holds none the call throws, and
\* it throws the collision error only then.
C36_ExistsVerified ==
    (client.phase = "done" /\ client.response.folder_exists) =>
        /\ ~client.result.thrown =>
               client.result.folderId \in {StripD(item.key) : item \in ChildrenNamed}
        /\ ChildrenNamed = {} => client.result.thrown
        /\ (client.result.thrown /\ client.result.message = CollisionMessage)
               => ChildrenNamed = {}

\* The create response named a folder of that name elsewhere in the account,
\* and the call returned the ID of the folder listed in the parent.
C36_Witness ==
    /\ client.phase = "done"
    /\ client.response.folder_exists
    /\ ~client.result.thrown
    /\ client.result.folderId # client.response.folder_id


\* ---- A naming collision during an upload run ----

\* The folder setup of some product has thrown createFolder's collision
\* error (the packages of that product carry its message).
CollisionFound ==
    /\ "files" \in DOMAIN ul
    /\ \E n \in 1..Len(ul.files) : ul.files[n].uploadError = CollisionError

\* C37: once a naming collision has been discovered in an upload run, no
\* folder setup is started and no transfer is made any more.
C37_CollisionAborts ==
    [][CollisionFound =>
          /\ ul'.folders = ul.folders
          /\ \A n \in 1..Len(ul.files) :
                 /\ ul'.files[n].primaryCalls = ul.files[n].primaryCalls
                 /\ ul'.files[n].fallbackCalls = ul.files[n].fallbackCalls]_vars

\* ---- Retry policy of the uploads ----

\* downloadFile has given up and uploadFile has thrown after its loop.
BothExhausted ==
    /\ df.phase = "returned"
    /\ ~df.result.success
    /\ client.phase = "done"
    /\ client.result.kind = "thrown"
    /\ client.result.exhausted

\* C38: called with the same maxRetries, uploadFile of either client makes
\* as many attempts as downloadFile makes requests, one and maxRetries more,
\* waits attempt * retryDelay before the retries, and reports the last error
\* when the attempts are used up.
C38_SameRetryPolicy ==
    BothExhausted =>
        /\ client.attempts = df.requests
        /\ client.attempts = 1 + client.maxRetries
        /\ Len(client.delays) = client.maxRetries
        /\ \A k \in 1..Len(client.delays) :
              client.delays[k] = k * UploadRetryDelayMs
        /\ client.result.error = client.lastError

\* ---- File name parsing ----

\* The ways of reading f as <product>_<version>_<arch>.qpkg: i and j are the
\* places of the two underscores, the version between them is a run of
\* digits and dots, the arch after them has no dot and ends where .qpkg,
\* the end of the name, starts.
FormsOf(f) ==
    {ij \in (1..Len(f)) \X (1..Len(f)) :
        /\ f[ij[1]] = "_"
        /\ f[ij[2]] = "_"
        /\ ij[1] + 1 < ij[2]
        /\ \A k \in (ij[1] + 1)..(ij[2] - 1) :
              f[k] \in {"0", "1", "2", "3", "4", "5", "6", "7", "8", "9", "."}
        /\ ij[2] + 5 < Len(f)
        /\ \A k \in (ij[2] + 1)..(Len(f) - 5) : f[k] # "."
        /\ f[Len(f) - 4] = "."
        /\ <<f[Len(f) - 3], f[Len(f) - 2], f[Len(f) - 1], f[Len(f)]>>
               = <<"q", "p", "k", "g">>}

\* The reading with the shortest product.
FirstForm(f) ==
    CHOOSE ij \in FormsOf(f) : \A other \in FormsOf(f) : ij[1] <= other[1]

\* parsed is what the claim has the parser return for f.
ParsedAsClaimed(f, parsed) ==
    IF FormsOf(f) = {}
    THEN parsed = [matched |-> FALSE]
    ELSE /\ parsed.matched
         /\ parsed.version = SubSeq(f, FirstForm(f)[1] + 1, FirstForm(f)[2] - 1)
         /\ parsed.arch = SubSeq(f, FirstForm(f)[2] + 1, Len(f) - 5)

\* What the claim's examples give.
ExamplesParsed(f, parsed) ==
    /\ f = ApacheName =>
          /\ parsed.matched
          /\ parsed.version = <<"2", "4", "6", "5", ".", "8", "3", "2", "6", "0">>
          /\ parsed.arch = <<"x", "8", "6", "_", "6", "4">>
    /\ f = MuslName =>
          /\ parsed.matched
          /\ parsed.version = <<"1", "1", ".", "1", ".", "5">>
          /\ parsed.arch = <<"a", "r", "m", "_", "6", "4">>

\* C39: for a name of the form <product>_<version>_<arch>.qpkg the parser
\* returns the run of digits and dots between the underscores as version and
\* what follows it up to .qpkg as arch, as in the two examples; for any other
\* name it returns neither; and the parser of ctfile-utils and its copy in
\* check-existing-files.ts return the same for every name.
C39_ParserAgrees ==
    client.phase = "parse" =>
        /\ client.utils # NotParsed =>
              /\ ParsedAsClaimed(client.filename, client.utils)
              /\ ExamplesParsed(client.filename, client.utils)
        /\ client.copy # NotParsed =>
              /\ ParsedAsClaimed(client.filename, client.copy)
              /\ ExamplesParsed(client.filename, client.copy)
        /\ (client.utils # NotParsed /\ client.copy # NotParsed) =>
              client.utils = client.copy

\* Both parsers have read a name that can be read in two ways.
C39_Witness ==
    /\ client.phase = "parse"
    /\ Cardinality(FormsOf(client.filename)) > 1
    /\ client.utils # NotParsed
    /\ client.copy # NotParsed
    /\ client.utils.matched

\* ---- One upload ledger ----

\* upload.ts has uploaded package n and its record is in the ledger it keeps.
UploadedAndRecorded(n) ==
    /\ ul.files[n].state = "UPLOADED"
    /\ uploadProgress.exists
    /\ \E record \in uploadProgress.records :
          record.filename = ul.packages[n].filename

\* The URL of platform e ends in filename, and filename carries the version
\* of e's catalog entry.
ListsFile(e, filename) ==
    /\ getFilenameFromUrl(e.platform.location) = filename
    /\ QpkgMatchStart(filename) # 0
    /\ \E arch \in {X86, Arm} :
          filename = StripQpkgSuffix(filename) \o <<"_">> \o e.app.version
                         \o <<"_">> \o arch \o QpkgExt

\* C40: the ledger upload.ts writes is the ledger the ledger pass reads: once
\* a file with a parseable name and the version of its catalog entry has been
\* uploaded and recorded, the next ledger pass drops the pending platform
\* whose URL filename it is.
C40_SingleLedger ==
    (ul.phase = "exited" /\ lastRun.op = "ledger" /\ lastRun.ran) =>
        \A n \in 1..Len(ul.packages) :
            UploadedAndRecorded(n) =>
                \A e \in ExaminedPlatforms(lastRun.examined) :
                    ListsFile(e, ul.packages[n].filename) =>
                        ~StillPending(lastRun.pending, e)

====
